---- MODULE Spec2Model ----
(***************************************************************************)
(* media2vid: the temp-segment cache, the segment producers, the audio     *)
(* background search, the range selector, the processing plan and the      *)
(* merge flow, modelled from src/src/*.py and src/media2vid.py.            *)
(*                                                                         *)
(* Conventions of the model                                                *)
(*  - durations are integers in tenths of a second (15 s = 150);           *)
(*  - a command is the sequence of its argument strings, as in the code;   *)
(*  - a file of the temp directory is a record; its probe (ffprobe) result *)
(*    is part of the record;                                               *)
(*  - the external encoder either fails or writes the file its arguments   *)
(*    ask for; the clock advances by one for every encoder run and every   *)
(*    touch of a source file;                                              *)
(*  - ffprobe reports no duration for a PNG source.                        *)
(*                                                                         *)
(* Specifications                                                          *)
(*  - Spec: productions of the one slot of a plan, with the source touched,*)
(*    the sidecar damaged and config.use_cache changed in between;         *)
(*  - SpecValid: normalize_codec_name, is_cached_file_valid,               *)
(*    save_cache_info and run_ffmpeg_with_error_handling called on drawn   *)
(*    temp files, sidecars and commands;                                   *)
(*  - SpecBg: find_audio_background called on drawn directory listings;    *)
(*  - SpecRange: parse_range and format_range_indicator of src/src/utils.py*)
(*    called on drawn range expressions;                                   *)
(*  - SpecMerge: runs of main of src/media2vid.py in one directory, in the *)
(*    Y, R and M flows, with determine_files_to_process and                *)
(*    create_final_output;                                                 *)
(*  - SpecPlan: categorize_media_files and create_processing_order called  *)
(*    on drawn directory listings.                                         *)
(***************************************************************************)
EXTENDS Integers, Sequences, FiniteSets, TLC

VARIABLES
    use_cache,  \* config.use_cache
    now,        \* wall clock (mtimes are clock readings)
    src,        \* the processing plan: slot -> [role, name, mtime, dur]
    art,        \* temp_/temp_{k-1}.mp4 of every slot
    sidecar,    \* temp_/temp_{k-1}.cache of every slot
    dir,        \* input directory listing and --audio-bg-pic override
    call,       \* the command a direct call of the cache functions is given
    last        \* the call that was made last, with what it returned

vars == <<use_cache, now, src, art, sidecar, dir, call, last>>

\* ------------------------------------------------------------------ bounds

\* the clock stops here: no encoder run and no touch once it is reached
MaxClock == 4
\* longest directory listing the background search is tried on
MaxListing == 2

\* --------------------------------------------------------------- constants

STANDARD_DURATION == 15
INTRO_DURATION == 3
\* 0.5 s, in tenths of a second
DurationTolerance == 5

\* Python's None where a string is expected, and where a number is expected
None == "<None>"
NoDuration == -1

Min(a, b) == IF a <= b THEN a ELSE b
Abs(a) == IF a < 0 THEN -a ELSE a

\* ------------------------------------------------------------ str.lower()

\* str.lower() on the names the model uses; every other name is lower case
Lower(s) ==
    CASE s = "LIBX264" -> "libx264"
      [] s = "H264_NVENC" -> "h264_nvenc"
      [] s = "AAC" -> "aac"
      [] s = "CUSTOM" -> "custom"
      [] s = "H264" -> "h264"
      [] s = ".PNG" -> ".png"
      [] s = ".Png" -> ".png"
      [] s = "Song1" -> "song1"
      [] s = "SONG1" -> "song1"
      [] s = "Song2" -> "song2"
      [] s = "Song3" -> "song3"
      [] s = "Audio_Background" -> "audio_background"
      [] s = "AUDIO_BACKGROUND" -> "audio_background"
      [] s = "Cover" -> "cover"
      [] s = "VP9" -> "vp9"
      [] OTHER -> s

\* ------------------------------------------------- normalize_codec_name

\* a version that forgets the hardware encoders
normalize_codec_name_nohw(codec_name) ==
    LET c == Lower(codec_name) IN
    CASE c = "libx264" -> "h264"
      [] c = "libx265" -> "hevc"
      [] c = "libfdk_aac" -> "aac"
      [] c = "aac" -> "aac"
      [] c = "libmp3lame" -> "mp3"
      [] c = "mp3" -> "mp3"
      [] c = "libopus" -> "opus"
      [] c = "opus" -> "opus"
      [] OTHER -> c

normalize_codec_name(codec_name) ==
    LET c == Lower(codec_name) IN
    CASE c = "libx264" -> "h264"
      [] c = "h264_nvenc" -> "h264"
      [] c = "h264_qsv" -> "h264"
      [] c = "libx265" -> "hevc"
      [] c = "hevc_nvenc" -> "hevc"
      [] c = "hevc_qsv" -> "hevc"
      [] c = "libfdk_aac" -> "aac"
      [] c = "aac" -> "aac"
      [] c = "libmp3lame" -> "mp3"
      [] c = "mp3" -> "mp3"
      [] c = "libopus" -> "opus"
      [] c = "opus" -> "opus"
      [] OTHER -> c

\* ----------------------------------------------------- command building

\* str(duration) of the two durations the producers pass
DurationStr(duration) ==
    CASE duration = STANDARD_DURATION -> "15"
      [] duration = INTRO_DURATION -> "3"
      [] OTHER -> "0"

build_base_ffmpeg_cmd(output_path, duration, use_gpu) ==
    LET video_codec ==
            IF use_gpu
            THEN <<"-c:v", "h264_nvenc", "-preset", "fast", "-rc:v", "vbr",
                   "-cq:v", "23", "-b:v", "0">>
            ELSE <<"-c:v", "libx264", "-preset", "medium", "-crf", "23">>
    IN  <<"ffmpeg", "-y">> \o video_codec \o
        <<"-pix_fmt", "yuv420p", "-profile:v", "high",
          "-colorspace", "bt709", "-color_primaries", "bt709",
          "-color_trc", "bt709", "-color_range", "tv",
          "-c:a", "aac", "-ar", "48000", "-b:a", "128k",
          "-t", DurationStr(duration), output_path>>

get_video_filter ==
    "scale=1920:1080:force_original_aspect_ratio=decrease,pad=1920:1080:(ow-iw)/2:(oh-ih)/2,setsar=1,fps=30"

get_audio_filter ==
    "aresample=48000,aformat=channel_layouts=stereo,loudnorm=I=-16:TP=-1.5:LRA=11"

\* the two -vf strings of process_audio_file
AudioBgFilter ==
    "scale=1920:1080,drawtext=fontsize=36:fontcolor=white:x=10:y=h-th-10:text=Audio only submission"
AudioBlackFilter ==
    "drawtext=fontsize=36:fontcolor=white:x=10:y=h-th-10:text=Audio only submission"

\* cmd[2:]
Skip2(cmd) == SubSeq(cmd, 3, Len(cmd))

IntroCmd(filename, output_path, duration) ==
    <<"ffmpeg", "-y", "-loop", "1", "-i", filename,
      "-f", "lavfi", "-i", "anullsrc=channel_layout=stereo:sample_rate=48000",
      "-vf", get_video_filter, "-shortest">>
    \o Skip2(build_base_ffmpeg_cmd(output_path, duration, FALSE))

VideoCmd(filename, output_path) ==
    <<"ffmpeg", "-y", "-i", filename,
      "-vf", get_video_filter, "-af", get_audio_filter>>
    \o Skip2(build_base_ffmpeg_cmd(output_path, STANDARD_DURATION, FALSE))

AudioBgCmd(filename, output_path, background_path) ==
    <<"ffmpeg", "-y", "-loop", "1", "-i", background_path, "-i", filename,
      "-vf", AudioBgFilter, "-af", get_audio_filter, "-shortest">>
    \o Skip2(build_base_ffmpeg_cmd(output_path, STANDARD_DURATION, FALSE))

AudioBlackCmd(filename, output_path) ==
    <<"ffmpeg", "-y", "-f", "lavfi", "-i", "color=black:size=1920x1080:rate=30",
      "-i", filename,
      "-vf", AudioBlackFilter, "-af", get_audio_filter, "-shortest">>
    \o Skip2(build_base_ffmpeg_cmd(output_path, STANDARD_DURATION, FALSE))

\* --------------------------------------------------------- get_cache_info

\* the key get_cache_info stores the argument after `arg` under, "" for an
\* argument it skips
KeyOf(arg) ==
    CASE arg \in {"-c:v", "-vcodec"} -> "video_codec"
      [] arg = "-crf" -> "crf"
      [] arg = "-b:v" -> "video_bitrate"
      [] arg = "-pix_fmt" -> "pixel_format"
      [] arg = "-profile:v" -> "video_profile"
      [] arg = "-preset" -> "preset"
      [] arg = "-vf" -> "video_filter"
      [] arg \in {"-c:a", "-acodec"} -> "audio_codec"
      [] arg = "-ar" -> "sample_rate"
      [] arg = "-b:a" -> "audio_bitrate"
      [] arg = "-af" -> "audio_filter"
      [] arg = "-t" -> "duration"
      [] OTHER -> ""

\* d[key] = value
Put(d, key, value) ==
    [k \in DOMAIN d \cup {key} |-> IF k = key THEN value ELSE d[k]]

\* an empty dict
EmptyDict == [k \in {} |-> None]

\* float(duration_str), in tenths; ValueError gives 15.0
ParseDuration(duration_str) ==
    CASE duration_str = "15" -> 150
      [] duration_str = "3" -> 30
      [] duration_str = "0" -> 0
      [] OTHER -> 150

\* re.search(r'scale=(\d+):(\d+)', filter_str), as "WxH" or None
ScaleMatch(filter_str) ==
    CASE filter_str = get_video_filter -> "1920x1080"
      [] filter_str = AudioBgFilter -> "1920x1080"
      [] OTHER -> None

\* the while loop over cmd, from position i on. source_duration is what
\* ffprobe reports for the source file, NoDuration when the probe fails
RECURSIVE ParseArgs(_, _, _, _)
ParseArgs(cmd, i, source_duration, expected_params) ==
    IF i > Len(cmd) THEN expected_params
    ELSE
        LET key == KeyOf(cmd[i])
            command_duration ==
                ParseDuration(IF i + 1 <= Len(cmd) THEN cmd[i + 1] ELSE "15")
            value ==
                IF key = "duration"
                THEN IF source_duration = NoDuration THEN command_duration
                     ELSE Min(source_duration, command_duration)
                ELSE IF i + 1 <= Len(cmd) THEN cmd[i + 1] ELSE ""
        IN  ParseArgs(cmd, i + 1, source_duration,
                      IF key = "" THEN expected_params
                      ELSE Put(expected_params, key, value))

\* the resolution taken from the video filter, when it matches
AddResolution(expected_params) ==
    IF "video_filter" \in DOMAIN expected_params
       /\ ScaleMatch(expected_params["video_filter"]) # None
    THEN Put(expected_params, "resolution",
             ScaleMatch(expected_params["video_filter"]))
    ELSE expected_params

\* the record written to the sidecar. Its 'command' and 'created' entries
\* are written and never read by any code: they are left out
get_cache_info(cmd, file_type, filename, source_duration) ==
    [expected |-> AddResolution(ParseArgs(cmd, 1, source_duration, EmptyDict)),
     source_file |-> filename,
     file_type |-> file_type]

\* the argument after an option of the command
OptValue(cmd, opt) ==
    LET i == CHOOSE p \in 1..Len(cmd) : cmd[p] = opt IN cmd[i + 1]

\* ------------------------------------------------------ files of temp_/

\* ffprobe's view of one stream; present = FALSE is Python's None
NoStream == [present |-> FALSE, codec |-> None, resolution |-> None,
             pix_fmt |-> None, sample_rate |-> None]

VideoStream(codec, resolution, pix_fmt) ==
    [present |-> TRUE, codec |-> codec, resolution |-> resolution,
     pix_fmt |-> pix_fmt, sample_rate |-> None]

AudioStream(codec, sample_rate) ==
    [present |-> TRUE, codec |-> codec, resolution |-> None,
     pix_fmt |-> None, sample_rate |-> sample_rate]

\* a temp file that does not exist
NoFile == [exists |-> FALSE, size |-> 0, mtime |-> 0,
           video |-> NoStream, audio |-> NoStream, duration |-> NoDuration]

\* a sidecar is absent, or holds text that is no JSON ("garbage"), a JSON
\* list ("list"), a JSON object whose 'expected' is no object
\* ("badexpected"), or a JSON object as save_cache_info writes it ("record")
NoSidecar == [kind |-> "absent"]
CorruptKinds == {"garbage", "list", "badexpected"}
Corrupt(kind) == [kind |-> kind]
Record(cache_info) == [kind |-> "record", info |-> cache_info]

\* get_stream_info: the first video and the first audio stream
get_stream_info(temp) == [video |-> temp.video, audio |-> temp.audio]

\* dict.get(param): None when the key is missing
Get(d, param) ==
    IF param \in DOMAIN d THEN d[param]
    ELSE IF param = "duration" THEN NoDuration ELSE None

key_params_to_check ==
    <<"video_codec", "audio_codec", "resolution", "duration", "pixel_format",
      "sample_rate">>

\* ---------------------------------------------------- is_cached_file_valid

\* what a call of is_cached_file_valid did: the value returned (raised =
\* TRUE when it returned nothing and an AttributeError left it), whether
\* get_stream_info was called, and the message printed
Verdict(valid, raised, probed, reason) ==
    [valid |-> valid, raised |-> raised, probed |-> probed, reason |-> reason]

\* the first key parameter that differs, 0 when none does
FirstChanged(stored_expected, current_expected) ==
    LET D == {i \in 1..Len(key_params_to_check) :
                 Get(stored_expected, key_params_to_check[i])
                   # Get(current_expected, key_params_to_check[i])}
    IN  IF D = {} THEN 0 ELSE CHOOSE i \in D : \A j \in D : i <= j

\* a duration check that refuses a difference of the tolerance itself
DurationMismatch_at_tolerance(actual_duration, expected_duration) ==
    /\ actual_duration # NoDuration
    /\ Abs(actual_duration - expected_duration) >= DurationTolerance

\* the duration check: actual_duration is what ffprobe -show_format reports
\* for the temp file, NoDuration when the probe fails or its answer cannot
\* be read, which the except clause passes over
DurationMismatch(actual_duration, expected_duration) ==
    /\ actual_duration # NoDuration
    /\ Abs(actual_duration - expected_duration) > DurationTolerance

\* the comparison of the probed file with current_expected: "" when nothing
\* is wrong, else the reason printed
ProbeMismatch(temp, current_expected) ==
    LET actual_info == get_stream_info(temp)
        has(k) == k \in DOMAIN current_expected
    IN  IF has("resolution") /\ actual_info.video.present
           /\ actual_info.video.resolution # current_expected["resolution"]
        THEN "resolution mismatch"
        ELSE IF has("resolution") /\ ~actual_info.video.present
        THEN "expected video stream not found"
        ELSE IF has("video_codec") /\ actual_info.video.present
                /\ normalize_codec_name(current_expected["video_codec"])
                     # normalize_codec_name(actual_info.video.codec)
        THEN "video codec mismatch"
        ELSE IF has("pixel_format") /\ actual_info.video.present
                /\ current_expected["pixel_format"] # actual_info.video.pix_fmt
        THEN "pixel format mismatch"
        ELSE IF has("audio_codec") /\ actual_info.audio.present
                /\ normalize_codec_name(current_expected["audio_codec"])
                     # normalize_codec_name(actual_info.audio.codec)
        THEN "audio codec mismatch"
        ELSE IF has("sample_rate") /\ actual_info.audio.present
                /\ current_expected["sample_rate"] # actual_info.audio.sample_rate
        THEN "sample rate mismatch"
        ELSE IF has("duration")
                /\ DurationMismatch(temp.duration, current_expected["duration"])
        THEN "duration mismatch"
        ELSE ""

\* the end of is_cached_file_valid: the verdict on the probed file
ProbeVerdict(mismatch) ==
    IF mismatch # "" THEN Verdict(FALSE, FALSE, TRUE, mismatch)
    ELSE Verdict(TRUE, FALSE, TRUE, "validated with ffprobe")

\* the sidecar is there: read it and compare
CompareWithSidecar(temp, cache_file, cache_info) ==
    IF cache_file.kind = "garbage"
    \* json.JSONDecodeError, caught
    THEN Verdict(FALSE, FALSE, FALSE, "could not read or parse cache file")
    ELSE IF cache_file.kind \in {"list", "badexpected"}
    \* .get on a list or a string: AttributeError, which nothing here catches
    THEN Verdict(FALSE, TRUE, FALSE, "AttributeError")
    ELSE IF FirstChanged(cache_file.info.expected, cache_info.expected) # 0
    THEN Verdict(FALSE, FALSE, FALSE, "parameter changed")
    ELSE ProbeVerdict(ProbeMismatch(temp, cache_info.expected))

\* a version that accepts a temp file as old as its source
is_cached_file_valid_le(uc, temp, source_mtime, cache_file, cache_info) ==
    IF ~uc THEN Verdict(FALSE, FALSE, FALSE, "cache disabled")
    ELSE IF ~temp.exists \/ temp.size = 0
    THEN Verdict(FALSE, FALSE, FALSE, "no temp file")
    ELSE IF temp.mtime < source_mtime
    THEN Verdict(FALSE, FALSE, FALSE, "source file is newer")
    ELSE IF cache_file.kind = "absent"
    THEN Verdict(FALSE, FALSE, FALSE, "no parameter signature found")
    ELSE CompareWithSidecar(temp, cache_file, cache_info)

\* a version that does not compare the modification times
is_cached_file_valid_nomtime(uc, temp, source_mtime, cache_file, cache_info) ==
    IF ~uc THEN Verdict(FALSE, FALSE, FALSE, "cache disabled")
    ELSE IF ~temp.exists \/ temp.size = 0
    THEN Verdict(FALSE, FALSE, FALSE, "no temp file")
    ELSE IF cache_file.kind = "absent"
    THEN Verdict(FALSE, FALSE, FALSE, "no parameter signature found")
    ELSE CompareWithSidecar(temp, cache_file, cache_info)

\* a version that does not look at the flag
is_cached_file_valid_noflag(uc, temp, source_mtime, cache_file, cache_info) ==
    IF ~temp.exists \/ temp.size = 0
    THEN Verdict(FALSE, FALSE, FALSE, "no temp file")
    ELSE IF temp.mtime <= source_mtime
    THEN Verdict(FALSE, FALSE, FALSE, "source file is newer")
    ELSE IF cache_file.kind = "absent"
    THEN Verdict(FALSE, FALSE, FALSE, "no parameter signature found")
    ELSE CompareWithSidecar(temp, cache_file, cache_info)

is_cached_file_valid(uc, temp, source_mtime, cache_file, cache_info) ==
    IF ~uc THEN Verdict(FALSE, FALSE, FALSE, "cache disabled")
    ELSE IF ~temp.exists \/ temp.size = 0
    THEN Verdict(FALSE, FALSE, FALSE, "no temp file")
    ELSE IF temp.mtime <= source_mtime
    THEN Verdict(FALSE, FALSE, FALSE, "source file is newer")
    ELSE IF cache_file.kind = "absent"
    THEN Verdict(FALSE, FALSE, FALSE, "no parameter signature found")
    ELSE CompareWithSidecar(temp, cache_file, cache_info)

\* the sidecar save_cache_info leaves
save_cache_info(uc, cache_file, cache_info) ==
    IF ~uc THEN cache_file ELSE Record(cache_info)

\* ------------------------------------------------------ external encoder

\* the codec_name ffprobe reports for a stream an encoder wrote
EncoderCodec(encoder) ==
    CASE encoder = "libx264" -> "h264"
      [] encoder = "h264_nvenc" -> "h264"
      [] encoder = "aac" -> "aac"
      [] OTHER -> encoder

\* the file a successful encoder run leaves at the output path: the streams
\* the command asks for, cut at -t
EncoderOutput(cmd, source_duration, mtime) ==
    LET t == ParseDuration(OptValue(cmd, "-t")) IN
    [exists |-> TRUE, size |-> 1, mtime |-> mtime,
     video |-> VideoStream(EncoderCodec(OptValue(cmd, "-c:v")),
                           "1920x1080",
                           OptValue(cmd, "-pix_fmt")),
     audio |-> AudioStream(EncoderCodec(OptValue(cmd, "-c:a")),
                           OptValue(cmd, "-ar")),
     duration |-> IF source_duration = NoDuration THEN t
                  ELSE Min(source_duration, t)]

\* ------------------------------------------ run_ffmpeg_with_error_handling

\* what one call did: the value returned, whether an exception left it
\* instead, how often subprocess.run(cmd) ran, and the two files after it
RunResult(ret, raised, invoked, temp, cache_file) ==
    [ret |-> ret, raised |-> raised, invoked |-> invoked,
     temp |-> temp, cache_file |-> cache_file]

\* a sidecar that is left where it is
Unlinked_kept(cache_file) == cache_file

\* cache_info_file.unlink() if it exists
Unlinked(cache_file) == NoSidecar

\* the try block: subprocess.run(cmd), then save_cache_info or the cleanup
RunEncoder(uc, caching, cache_info, cmd, source, cache_file, encoder_ok, clock) ==
    IF encoder_ok
    THEN RunResult(TRUE, FALSE, 1,
                   EncoderOutput(cmd, source.dur, clock + 1),
                   IF caching THEN save_cache_info(uc, cache_file, cache_info)
                   ELSE cache_file)
    \* CalledProcessError: the output file and, when caching, the sidecar
    \* are unlinked
    ELSE RunResult(FALSE, FALSE, 1, NoFile,
                   IF caching THEN Unlinked(cache_file) ELSE cache_file)

\* a cache branch that unlinks the sidecar of a valid temp file as well
RunCached_unlinking_on_hit(uc, caching, v, cache_info, cmd, source, temp, cache_file, encoder_ok, clock) ==
    IF caching /\ v.raised
    THEN RunResult(FALSE, TRUE, 0, temp, cache_file)
    ELSE IF caching /\ v.valid
    THEN RunResult(TRUE, FALSE, 0, temp, Unlinked(cache_file))
    ELSE RunEncoder(uc, caching, cache_info, cmd, source,
                    IF caching THEN Unlinked(cache_file) ELSE cache_file,
                    encoder_ok, clock)

\* the cache branch, v being is_cached_file_valid's answer
RunCached(uc, caching, v, cache_info, cmd, source, temp, cache_file, encoder_ok, clock) ==
    IF caching /\ v.raised
    THEN RunResult(FALSE, TRUE, 0, temp, cache_file)
    ELSE IF caching /\ v.valid
    THEN RunResult(TRUE, FALSE, 0, temp, cache_file)
    ELSE RunEncoder(uc, caching, cache_info, cmd, source,
                    IF caching THEN Unlinked(cache_file) ELSE cache_file,
                    encoder_ok, clock)

RunWithInfo(uc, cache_info, cmd, file_type, source, temp, cache_file, encoder_ok, clock) ==
    RunCached(uc, uc /\ file_type # "CONCAT",
              is_cached_file_valid(uc, temp, source.mtime, cache_file,
                                   cache_info),
              cache_info, cmd, source, temp, cache_file, encoder_ok, clock)

run_ffmpeg_with_error_handling(uc, cmd, file_type, source, temp, cache_file, encoder_ok, clock) ==
    RunWithInfo(uc, get_cache_info(cmd, file_type, source.name, source.dur),
                cmd, file_type, source, temp, cache_file, encoder_ok, clock)

\* -------------------------------------------------- find_audio_background

\* a directory entry; Path.stem and Path.suffix are kept apart
Entry(stem, suffix, is_file) ==
    [stem |-> stem, suffix |-> suffix, is_file |-> is_file]
FileName(e) == e.stem \o e.suffix

\* no path (Python's None)
NoPath == "<no path>"
\* --audio-bg-pic was not given
NoCustom == [given |-> FALSE, exists |-> FALSE, name |-> ""]

BgResult(path, description) == [path |-> path, description |-> description]

\* the first of the positions M of a listing, in iterdir() order; 0 if none
First(M) == IF M = {} THEN 0 ELSE CHOOSE i \in M : \A j \in M : i <= j

\* file.is_file() and file.suffix.lower() == '.png' and
\* file.stem.lower() == stem
IsPngNamed(file, stem) ==
    file.is_file /\ Lower(file.suffix) = ".png" /\ Lower(file.stem) = stem

\* a version that looks for audio_background.png before the same-name PNG
find_audio_background_swapped(filename, custom_bg_path, listing) ==
    LET i1 == First({i \in 1..Len(listing) :
                        IsPngNamed(listing[i], Lower(filename.stem))})
        i2 == First({i \in 1..Len(listing) :
                        IsPngNamed(listing[i], "audio_background")})
    IN  IF custom_bg_path.given /\ custom_bg_path.exists
        THEN BgResult(custom_bg_path.name,
                      "custom background (" \o custom_bg_path.name \o ")")
        ELSE IF i2 # 0
        THEN BgResult(FileName(listing[i2]),
                      "audio_background (" \o FileName(listing[i2]) \o ")")
        ELSE IF i1 # 0
        THEN BgResult(FileName(listing[i1]),
                      "same-name PNG (" \o FileName(listing[i1]) \o ")")
        ELSE BgResult(NoPath, "black background")

\* filename: the audio file's name as [stem, suffix];
\* custom_bg_path: [given, exists, name]; listing: search_dir.iterdir()
find_audio_background(filename, custom_bg_path, listing) ==
    LET i1 == First({i \in 1..Len(listing) :
                        IsPngNamed(listing[i], Lower(filename.stem))})
        i2 == First({i \in 1..Len(listing) :
                        IsPngNamed(listing[i], "audio_background")})
    IN  IF custom_bg_path.given /\ custom_bg_path.exists
        THEN BgResult(custom_bg_path.name,
                      "custom background (" \o custom_bg_path.name \o ")")
        ELSE IF i1 # 0
        THEN BgResult(FileName(listing[i1]),
                      "same-name PNG (" \o FileName(listing[i1]) \o ")")
        ELSE IF i2 # 0
        THEN BgResult(FileName(listing[i2]),
                      "audio_background (" \o FileName(listing[i2]) \o ")")
        ELSE BgResult(NoPath, "black background")

\* ------------------------------------------------------------- producers

\* the source file as run_ffmpeg_with_error_handling and ffprobe see it
SourceFile(s) == [name |-> FileName(s.name), mtime |-> s.mtime, dur |-> s.dur]

\* one call of run_ffmpeg_with_error_handling, as the producer saw it
Run(background, r) ==
    [background |-> background, invoked |-> r.invoked, ret |-> r.ret,
     raised |-> r.raised]

\* what a producer did: the value returned, its calls of
\* run_ffmpeg_with_error_handling in order, the two files after it, and
\* whether its "except Exception" caught something
ProdResult(ret, runs, temp, cache_file, caught) ==
    [ret |-> ret, runs |-> runs, temp |-> temp, cache_file |-> cache_file,
     caught |-> caught]

\* a producer that made one call of run_ffmpeg_with_error_handling
OneRun(background, r) ==
    ProdResult(r.ret /\ ~r.raised, <<Run(background, r)>>, r.temp,
               r.cache_file, r.raised)

process_intro_file(uc, s, output_path, temp, cache_file, oks, clock) ==
    OneRun("none",
           run_ffmpeg_with_error_handling(
               uc, IntroCmd(FileName(s.name), output_path, INTRO_DURATION),
               "INTRO", SourceFile(s), temp, cache_file, oks[1], clock))

process_video_file(uc, s, output_path, temp, cache_file, oks, clock) ==
    OneRun("none",
           run_ffmpeg_with_error_handling(
               uc, VideoCmd(FileName(s.name), output_path),
               "VIDEO", SourceFile(s), temp, cache_file, oks[1], clock))

\* the black background, as the only attempt or after the image failed
AudioBlack(uc, s, output_path, temp, cache_file, encoder_ok, clock) ==
    run_ffmpeg_with_error_handling(
        uc, AudioBlackCmd(FileName(s.name), output_path),
        "AUDIO", SourceFile(s), temp, cache_file, encoder_ok, clock)

\* the fallback: r1 is the failed run with the image
AudioSecond(r1, r2) ==
    ProdResult(r2.ret /\ ~r2.raised, <<Run("image", r1), Run("black", r2)>>,
               r2.temp, r2.cache_file, r2.raised)

\* a version that gives up when the background image fails
AudioAfterImage_no_fallback(uc, s, output_path, r1, oks, clock) ==
    OneRun("image", r1)

\* r1 is the run with the background image
AudioAfterImage(uc, s, output_path, r1, oks, clock) ==
    IF r1.raised \/ r1.ret
    THEN OneRun("image", r1)
    ELSE AudioSecond(r1, AudioBlack(uc, s, output_path, r1.temp,
                                    r1.cache_file, oks[2],
                                    clock + r1.invoked))

AudioWithBackground(uc, s, output_path, bg, temp, cache_file, oks, clock) ==
    IF bg.path # NoPath
    THEN AudioAfterImage(
             uc, s, output_path,
             run_ffmpeg_with_error_handling(
                 uc, AudioBgCmd(FileName(s.name), output_path, bg.path),
                 "AUDIO", SourceFile(s), temp, cache_file, oks[1], clock),
             oks, clock)
    ELSE OneRun("black",
                AudioBlack(uc, s, output_path, temp, cache_file, oks[1], clock))

process_audio_file(uc, s, output_path, title_screen_path, listing, temp, cache_file, oks, clock) ==
    AudioWithBackground(
        uc, s, output_path,
        find_audio_background(s.name, title_screen_path, listing),
        temp, cache_file, oks, clock)

\* a temp file path numbered by the index itself
TempPath_of_index(index) == "temp_/temp_" \o ToString(index) \o ".mp4"

\* temp_dir / f"temp_{index-1}.mp4"
TempPath(index) == "temp_/temp_" \o ToString(index - 1) \o ".mp4"

\* a main that takes every producer's run for a success
ProcessSlot_reporting_success(uc, index, s, d, temp, cache_file, oks, clock) ==
    [(IF s.role = "INTRO"
      THEN process_intro_file(uc, s, TempPath(index), temp, cache_file, oks, clock)
      ELSE IF s.role = "AUDIO"
      THEN process_audio_file(uc, s, TempPath(index), d.custom, d.listing,
                              temp, cache_file, oks, clock)
      ELSE process_video_file(uc, s, TempPath(index), temp, cache_file, oks, clock))
     EXCEPT !.ret = TRUE]

\* the call main makes for one slot of the plan
ProcessSlot(uc, index, s, d, temp, cache_file, oks, clock) ==
    IF s.role = "INTRO"
    THEN process_intro_file(uc, s, TempPath(index), temp, cache_file, oks, clock)
    ELSE IF s.role = "AUDIO"
    THEN process_audio_file(uc, s, TempPath(index), d.custom, d.listing,
                            temp, cache_file, oks, clock)
    ELSE process_video_file(uc, s, TempPath(index), temp, cache_file, oks, clock)

\* ------------------------------------------------------- production runs

Slots == DOMAIN src

RECURSIVE SumInvoked(_)
SumInvoked(runs) ==
    IF runs = <<>> THEN 0 ELSE Head(runs).invoked + SumInvoked(Tail(runs))

\* the command a producer tries first for a slot, and its fingerprint
FirstCmd(index, s, d) ==
    LET bg == find_audio_background(s.name, d.custom, d.listing) IN
    IF s.role = "INTRO"
    THEN IntroCmd(FileName(s.name), TempPath(index), INTRO_DURATION)
    ELSE IF s.role = "VIDEO" THEN VideoCmd(FileName(s.name), TempPath(index))
    ELSE IF bg.path # NoPath
    THEN AudioBgCmd(FileName(s.name), TempPath(index), bg.path)
    ELSE AudioBlackCmd(FileName(s.name), TempPath(index))

FirstInfo(index, s, d) ==
    get_cache_info(FirstCmd(index, s, d), s.role, FileName(s.name), s.dur)

\* is the slot's cache valid for the command tried first?
CacheValid(k) ==
    is_cached_file_valid(use_cache, art[k], src[k].mtime, sidecar[k],
                         FirstInfo(k, src[k], dir)).valid

\* what the next call remembers of the call before it
Prev ==
    [op |-> last.op, slot |-> last.slot, good |-> last.good,
     fell_back |-> last.op = "produce" /\ Len(last.runs) = 2,
     kind |-> IF last.op = "corrupt" THEN last.kind ELSE ""]

\* the source file the plan holds at an index, by role
SourceOf(role, index) ==
    CASE role = "INTRO" ->
            [role |-> role, name |-> Entry("intro_pic", ".png", TRUE),
             mtime |-> 0, dur |-> NoDuration]
      [] role = "VIDEO" ->
            [role |-> role,
             name |-> Entry("clip" \o ToString(index), ".mp4", TRUE),
             mtime |-> 0, dur |-> 200]
      [] OTHER ->
            [role |-> role,
             name |-> Entry("Song" \o ToString(index), ".mp3", TRUE),
             mtime |-> 0, dur |-> 90]

\* the plans of a directory that holds one media file
Plans == {<<SourceOf(role, 1)>> : role \in {"INTRO", "VIDEO", "AUDIO"}}

\* the PNGs the input directory may hold next to the media files
ExtraListings ==
    {<<>>, <<Entry("song1", ".PNG", TRUE)>>,
     <<Entry("audio_background", ".png", TRUE)>>}

Idle == [op |-> "start", slot |-> 0, good |-> FALSE]
NoCall == [cmd |-> <<>>]

Init ==
    /\ use_cache \in BOOLEAN
    /\ now = 0
    /\ src \in Plans
    /\ art = [k \in DOMAIN src |-> NoFile]
    /\ sidecar = [k \in DOMAIN src |-> NoSidecar]
    /\ \E x \in ExtraListings :
          dir = [listing |-> [k \in DOMAIN src |-> src[k].name] \o x,
                 custom |-> NoCustom]
    /\ call = NoCall
    /\ last = Idle

\* the encoder outcomes a producer may meet: its first and second run
Outcomes(role) ==
    IF role = "AUDIO" THEN {<<TRUE, TRUE>>, <<FALSE, TRUE>>, <<FALSE, FALSE>>}
    ELSE {<<TRUE, TRUE>>, <<FALSE, FALSE>>}

\* main's loop body for slot k: the producer runs to its end
Produce(k) ==
    \E oks \in Outcomes(src[k].role) :
    \E p \in {ProcessSlot(use_cache, k, src[k], dir, art[k], sidecar[k],
                          oks, now)} :
    \E n \in {SumInvoked(p.runs)} :
        /\ now + n <= MaxClock
        /\ now' = now + n
        /\ art' = [art EXCEPT ![k] = p.temp]
        /\ sidecar' = [sidecar EXCEPT ![k] = p.cache_file]
        /\ last' = [op |-> "produce", slot |-> k, good |-> p.ret /\ use_cache,
                    ret |-> p.ret, runs |-> p.runs, caught |-> p.caught,
                    invocations |-> n, use_cache |-> use_cache,
                    was_valid |-> CacheValid(k),
                    prev |-> Prev]
        /\ UNCHANGED <<use_cache, src, dir, call>>

\* the user touches (or replaces) a source file
Touch(k) ==
    /\ now < MaxClock
    /\ now' = now + 1
    /\ src' = [src EXCEPT ![k].mtime = now + 1]
    /\ last' = [op |-> "touch", slot |-> k, good |-> CacheValid(k)]
    /\ UNCHANGED <<use_cache, art, sidecar, dir, call>>

\* a sidecar is damaged on disk (a cut-off write, an edit)
CorruptSidecar(k) ==
    /\ sidecar[k].kind = "record"
    /\ \E kind \in CorruptKinds :
          /\ sidecar' = [sidecar EXCEPT ![k] = Corrupt(kind)]
          /\ last' = [op |-> "corrupt", slot |-> k, good |-> FALSE,
                      kind |-> kind]
    /\ UNCHANGED <<use_cache, now, src, art, dir, call>>

\* config.use_cache is changed between two runs
SetUseCache ==
    /\ use_cache' = ~use_cache
    /\ last' = [op |-> "config", slot |-> 0, good |-> FALSE]
    /\ UNCHANGED <<now, src, art, sidecar, dir, call>>

Next ==
    \/ \E k \in Slots : Produce(k)
    \/ \E k \in Slots : Touch(k)
    \/ \E k \in Slots : CorruptSidecar(k)
    \/ SetUseCache

Spec == Init /\ [][Next]_vars

\* --------------------------------------- direct calls on arbitrary files

\* the command of process_video_file with the encoder build_base_ffmpeg_cmd
\* picks for use_gpu = True
GpuVideoCmd(filename, output_path) ==
    <<"ffmpeg", "-y", "-i", filename,
      "-vf", get_video_filter, "-af", get_audio_filter>>
    \o Skip2(build_base_ffmpeg_cmd(output_path, STANDARD_DURATION, TRUE))

\* a command with the argument after opt replaced
WithEncoder(cmd, opt, encoder) ==
    [i \in DOMAIN cmd |-> IF i > 1 /\ cmd[i - 1] = opt THEN encoder ELSE cmd[i]]

VideoEncoders ==
    {"libx264", "h264_nvenc", "h264_qsv", "libx265", "hevc_nvenc",
     "LIBX264", "H264_NVENC", "vp9", "VP9"}
AudioEncoders == {"libfdk_aac", "aac", "AAC"}

\* the video source the direct calls are about
TheVideo == [SourceOf("VIDEO", 1) EXCEPT !.mtime = 1]

PlainVideoCmd == VideoCmd(FileName(TheVideo.name), TempPath(1))

\* the commands the direct calls are made with
Cmds ==
    {WithEncoder(PlainVideoCmd, "-c:v", e) : e \in VideoEncoders}
    \cup {WithEncoder(PlainVideoCmd, "-c:a", e) : e \in AudioEncoders}
    \cup {GpuVideoCmd(FileName(TheVideo.name), TempPath(1))}

\* the fingerprint of a command for the video source
InfoOf(cmd) ==
    get_cache_info(cmd, "VIDEO", FileName(TheVideo.name), TheVideo.dur)

\* a temp file as ffprobe describes it
TempFile(mtime, vcodec, acodec, resolution) ==
    [exists |-> TRUE, size |-> 1, mtime |-> mtime,
     video |-> VideoStream(vcodec, resolution, "yuv420p"),
     audio |-> AudioStream(acodec, "48000"),
     duration |-> 150]

\* the temp files found on disk: none, an empty one, older than, as old as
\* and newer than the source, and newer ones with other streams, without a
\* video or an audio stream, with a duration off by up to 0.6 s, and with a
\* duration ffprobe cannot tell
Temps ==
    {NoFile, [NoFile EXCEPT !.exists = TRUE]}
    \cup {TempFile(m, "h264", "aac", "1920x1080") : m \in 0..2}
    \cup {TempFile(2, "hevc", "aac", "1920x1080"),
          TempFile(2, "vp9", "aac", "1920x1080"),
          TempFile(2, "h264", "mp3", "1920x1080"),
          TempFile(2, "h264", "aac", "1280x720")}
    \cup {[TempFile(2, "h264", "aac", "1920x1080") EXCEPT !.audio = NoStream],
          [TempFile(2, "h264", "aac", "1920x1080") EXCEPT !.video = NoStream],
          [TempFile(2, "h264", "aac", "1920x1080") EXCEPT
              !.video = NoStream, !.audio = NoStream]}
    \cup {[TempFile(2, "h264", "aac", "1920x1080") EXCEPT !.duration = d] :
             d \in {NoDuration, 144, 145, 155, 156}}

\* the sidecars found on disk; own is the one the command itself would leave
Sidecars(own) ==
    {NoSidecar, Record(own)}
    \cup {Corrupt(kind) : kind \in CorruptKinds}
    \cup {Record(InfoOf(PlainVideoCmd)),
          Record(InfoOf(GpuVideoCmd(FileName(TheVideo.name), TempPath(1)))),
          Record(get_cache_info(
                     IntroCmd("intro_pic.png", TempPath(1), INTRO_DURATION),
                     "INTRO", "intro_pic.png", NoDuration)),
          Record(InfoOf(AudioBlackCmd(FileName(TheVideo.name), TempPath(1))))}

InitValid ==
    /\ use_cache \in BOOLEAN
    /\ now = 2
    /\ src = <<TheVideo>>
    /\ \E t \in Temps : art = <<t>>
    /\ call \in {[cmd |-> c] : c \in Cmds}
    /\ \E c \in Sidecars(InfoOf(call.cmd)) : sidecar = <<c>>
    /\ dir = [listing |-> <<TheVideo.name>>, custom |-> NoCustom]
    /\ last = Idle

\* normalize_codec_name(name) on an encoder the command names
CallNormalize ==
    /\ \E opt \in {"-c:v", "-c:a"} :
          last' = [op |-> "normalize", slot |-> 1, good |-> FALSE,
                   codec_name |-> OptValue(call.cmd, opt),
                   result |-> normalize_codec_name(OptValue(call.cmd, opt))]
    /\ UNCHANGED <<use_cache, now, src, art, sidecar, dir, call>>

\* is_cached_file_valid(temp_file, source_file, cache_info)
CallIsValid(k) ==
    /\ last' = [op |-> "is_valid", slot |-> k, good |-> FALSE,
                v |-> is_cached_file_valid(use_cache, art[k], src[k].mtime,
                                           sidecar[k], InfoOf(call.cmd))]
    /\ UNCHANGED <<use_cache, now, src, art, sidecar, dir, call>>

\* save_cache_info(temp_file, cache_info)
CallSave(k) ==
    /\ sidecar' = [sidecar EXCEPT
                     ![k] = save_cache_info(use_cache, sidecar[k],
                                            InfoOf(call.cmd))]
    /\ last' = [op |-> "save", slot |-> k, good |-> FALSE,
                before |-> sidecar[k]]
    /\ UNCHANGED <<use_cache, now, src, art, dir, call>>

\* run_ffmpeg_with_error_handling(cmd, description, output_path, source_file,
\* 'VIDEO')
CallRun(k) ==
    \E encoder_ok \in BOOLEAN :
    \E r \in {run_ffmpeg_with_error_handling(
                  use_cache, call.cmd, "VIDEO", SourceFile(src[k]), art[k],
                  sidecar[k], encoder_ok, now)} :
        /\ now + r.invoked <= MaxClock
        /\ now' = now + r.invoked
        /\ art' = [art EXCEPT ![k] = r.temp]
        /\ sidecar' = [sidecar EXCEPT ![k] = r.cache_file]
        /\ last' = [op |-> "run", slot |-> k, good |-> FALSE,
                    ret |-> r.ret, raised |-> r.raised,
                    invoked |-> r.invoked, encoder_ok |-> encoder_ok,
                    found |-> [temp |-> art[k], cache_file |-> sidecar[k]]]
        /\ UNCHANGED <<use_cache, src, dir, call>>

NextValid ==
    \/ CallNormalize
    \/ \E k \in Slots : CallIsValid(k)
    \/ \E k \in Slots : CallSave(k)
    \/ \E k \in Slots : CallRun(k)

SpecValid == InitValid /\ [][NextValid]_vars

\* ------------------------------- run_ffmpeg_with_error_handling, stepwise
\* src/src/ffmpeg_utils.py: the calls for one temp file, one after the
\* other, each in its steps: the cache check with the removal of the old
\* sidecar, the encoder, and save_cache_info or the cleanup

\* where a call is: pc is "idle" between two calls, made_with is the
\* sidecar of the encoder run that made the temp file (NoSidecar when
\* there is no temp file)
RunAt(cmd, pc, ret, made_with, encoded) ==
    [cmd |-> cmd, pc |-> pc, ret |-> ret, made_with |-> made_with,
     encoded |-> encoded]

InitRun ==
    /\ use_cache \in BOOLEAN
    /\ now = 2
    /\ src = <<TheVideo>>
    /\ art = <<NoFile>>
    /\ sidecar = <<NoSidecar>>
    /\ dir = [listing |-> <<TheVideo.name>>, custom |-> NoCustom]
    /\ \E c \in Cmds : call = RunAt(c, "idle", FALSE, NoSidecar, 0)
    /\ last = Idle

\* the call begins, lines 147-160: with caching on, a valid temp file is
\* returned as it is, and else the sidecar is unlinked
RunBegin ==
    /\ call.pc = "idle"
    /\ \E cmd \in Cmds :
       \E v \in {is_cached_file_valid(use_cache, art[1], src[1].mtime,
                                      sidecar[1], InfoOf(cmd))} :
          /\ call' = [call EXCEPT
                         !.cmd = cmd,
                         !.ret = use_cache /\ v.valid,
                         !.pc = IF use_cache /\ v.valid THEN "idle"
                                ELSE "encode"]
          /\ sidecar' = IF use_cache /\ ~v.valid
                        THEN <<Unlinked(sidecar[1])>> ELSE sidecar
          /\ last' = [op |-> "begin", slot |-> 1, good |-> FALSE,
                      hit |-> use_cache /\ v.valid, found |-> sidecar[1]]
    /\ UNCHANGED <<use_cache, now, src, art, dir>>

\* subprocess.run(cmd, check=True), line 163: the encoder writes the temp
\* file, or fails and leaves what it wrote of it
RunSubprocess ==
    /\ call.pc = "encode"
    /\ now < MaxClock
    /\ \E encoder_ok \in BOOLEAN :
          /\ art' = IF encoder_ok
                    THEN <<EncoderOutput(call.cmd, SourceFile(src[1]).dur,
                                         now + 1)>>
                    ELSE <<[NoFile EXCEPT !.exists = TRUE, !.mtime = now + 1]>>
          /\ call' = [call EXCEPT !.pc = IF encoder_ok THEN "save" ELSE "cleanup",
                                  !.encoded = call.encoded + 1]
          /\ last' = [op |-> "subprocess", slot |-> 1, good |-> encoder_ok,
                      found |-> sidecar[1]]
    /\ now' = now + 1
    /\ UNCHANGED <<use_cache, src, sidecar, dir>>

\* lines 166-172: save_cache_info, return True
RunSave ==
    /\ call.pc = "save"
    /\ sidecar' = <<save_cache_info(use_cache, sidecar[1], InfoOf(call.cmd))>>
    /\ call' = [call EXCEPT !.pc = "idle", !.ret = TRUE,
                            !.made_with = Record(InfoOf(call.cmd))]
    /\ last' = [op |-> "save", slot |-> 1, good |-> TRUE, found |-> sidecar[1]]
    /\ UNCHANGED <<use_cache, now, src, art, dir>>

\* lines 223-231: the output file and the sidecar are unlinked, return
\* False
RunCleanup ==
    /\ call.pc = "cleanup"
    /\ art' = <<NoFile>>
    /\ sidecar' = IF use_cache THEN <<Unlinked(sidecar[1])>> ELSE sidecar
    /\ call' = [call EXCEPT !.pc = "idle", !.ret = FALSE, !.made_with = NoSidecar]
    /\ last' = [op |-> "cleanup", slot |-> 1, good |-> FALSE,
                found |-> sidecar[1]]
    /\ UNCHANGED <<use_cache, now, src, dir>>

NextRun ==
    \/ RunBegin
    \/ RunSubprocess
    \/ RunSave
    \/ RunCleanup
    \/ Touch(1)

SpecRun == InitRun /\ [][NextRun]_vars

\* ------------------------------------------ the background search, alone

\* the entries a directory may hold next to the audio file
EntryPool ==
    {Entry("song1", ".png", TRUE), Entry("SONG1", ".PNG", TRUE),
     Entry("audio_background", ".png", TRUE),
     Entry("Audio_Background", ".Png", TRUE),
     Entry("cover", ".png", TRUE), Entry("song1", ".jpg", TRUE),
     Entry("Song1", ".png", FALSE)}

\* the listings of at most MaxListing different entries, in any order
Listings ==
    UNION {{l \in [1..n -> EntryPool] :
               \A i, j \in 1..n : i # j => l[i] # l[j]} : n \in 0..MaxListing}

\* --audio-bg-pic: not given, a file that exists, a file that does not
CustomPaths ==
    {NoCustom, [given |-> TRUE, exists |-> TRUE, name |-> "custom.png"],
     [given |-> TRUE, exists |-> FALSE, name |-> "custom.png"]}

InitBg ==
    /\ use_cache = TRUE
    /\ now = 0
    /\ src = <<SourceOf("AUDIO", 1)>>
    /\ art = <<NoFile>>
    /\ sidecar = <<NoSidecar>>
    /\ \E l \in Listings, c \in CustomPaths : dir = [listing |-> l, custom |-> c]
    /\ call = NoCall
    /\ last = Idle

\* find_audio_background(filename, custom_bg_path)
CallFindBackground(k) ==
    /\ last.op = "start"
    /\ last' = [op |-> "find_bg", slot |-> k, good |-> FALSE,
                result |-> find_audio_background(src[k].name, dir.custom,
                                                 dir.listing)]
    /\ UNCHANGED <<use_cache, now, src, art, sidecar, dir, call>>

NextBg == \E k \in Slots : CallFindBackground(k)

SpecBg == InitBg /\ [][NextBg]_vars

\* ================================================================ claims

KeyParams == {key_params_to_check[i] : i \in 1..Len(key_params_to_check)}

\* the last call was a production of a slot
Produced == last.op = "produce"

\* the last run of the last production started the encoder, which failed
EncoderFailedLast ==
    /\ last.runs[Len(last.runs)].invoked = 1
    /\ ~last.runs[Len(last.runs)].ret

\* C1 (as stated): after a production that returned success with caching
\* enabled, a second production of the same slot, with nothing changed in
\* between, starts the encoder zero times and returns success.
C1_CacheIdempotence ==
    (Produced /\ last.prev.op = "produce" /\ last.prev.slot = last.slot
       /\ last.prev.good /\ last.use_cache)
    => (last.invocations = 0 /\ last.ret)

\* C1, the case that holds: the same, unless the first production was an
\* AUDIO slot's fallback to the black background (the second production
\* then meets the background image again as its first attempt).
C1_IdempotentUnlessFallback ==
    (Produced /\ last.prev.op = "produce" /\ last.prev.slot = last.slot
       /\ last.prev.good /\ last.use_cache
       /\ ~last.prev.fell_back)
    => (last.invocations = 0 /\ last.ret)

\* C1: a second production that found the cache valid is reached
C1_Witness ==
    /\ Produced /\ last.prev.op = "produce" /\ last.prev.good
    /\ last.use_cache /\ last.invocations = 0 /\ last.ret

\* the last call produced a slot whose source was touched just before,
\* when its cache was valid
TouchedValid ==
    Produced /\ last.prev.op = "touch" /\ last.prev.slot = last.slot
    /\ last.prev.good

\* C2 (as stated, and read in its favour as being about productions that
\* return success): when a valid cache exists and the source is touched,
\* the next production starts the encoder exactly once, and the cache is
\* valid again after it.
C2_ExactlyOneReencode ==
    (TouchedValid /\ last.ret)
    => (last.invocations = 1 /\ CacheValid(last.slot))

\* C2 (amended): when a valid cache exists and the source is touched, the
\* next production finds the cache invalid and starts the encoder once or
\* twice, twice only for an AUDIO slot whose attempt with the background
\* image failed; if its first attempt succeeds the encoder ran exactly once
\* and the cache is valid again.
C2_ReencodeAfterTouch ==
    TouchedValid =>
        /\ ~last.was_valid
        /\ last.invocations \in {1, 2}
        /\ last.invocations = 2 =>
              /\ src[last.slot].role = "AUDIO"
              /\ last.runs[1].background = "image"
              /\ ~last.runs[1].ret
        /\ last.runs[1].ret =>
              /\ last.invocations = 1
              /\ last.ret
              /\ CacheValid(last.slot)

\* C2: a touched slot was produced again with one encoder run
C2_Witness ==
    TouchedValid /\ last.invocations = 1 /\ last.ret /\ CacheValid(last.slot)

\* is_cached_file_valid answered False at once, without probing
Refused(v, reason) ==
    ~v.valid /\ ~v.raised /\ ~v.probed /\ v.reason = reason

\* the stored and the current fingerprint agree on every key parameter
SameKeys(cache_file, current_expected) ==
    /\ cache_file.kind = "record"
    /\ \A param \in KeyParams :
          Get(cache_file.info.expected, param) = Get(current_expected, param)

\* C3: is_cached_file_valid returns True only if the temp file exists and
\* is not empty, is strictly newer than the source, has a sidecar, and the
\* six key parameters stored in it equal the current ones; these checks run
\* in this order, and the first that fails returns False before
\* get_stream_info is called.
C3_ValidOnlyIf ==
    last.op = "is_valid" =>
        LET temp == art[last.slot]
            cache_file == sidecar[last.slot]
            present == temp.exists /\ temp.size # 0
            newer == temp.mtime > src[last.slot].mtime
            has_sidecar == cache_file.kind # "absent"
            same == SameKeys(cache_file, InfoOf(call.cmd).expected)
        IN  /\ last.v.valid => present /\ newer /\ has_sidecar /\ same
            /\ (use_cache /\ ~present) => Refused(last.v, "no temp file")
            /\ (use_cache /\ present /\ ~newer)
                  => Refused(last.v, "source file is newer")
            /\ (use_cache /\ present /\ newer /\ ~has_sidecar)
                  => Refused(last.v, "no parameter signature found")
            /\ (use_cache /\ present /\ newer /\ cache_file.kind = "record"
                  /\ ~same)
                  => Refused(last.v, "parameter changed")

\* C3: a temp file exactly as old as its source, with the matching sidecar,
\* was refused
C3_Witness ==
    /\ last.op = "is_valid" /\ use_cache
    /\ art[last.slot].exists /\ art[last.slot].size # 0
    /\ art[last.slot].mtime = src[last.slot].mtime
    /\ sidecar[last.slot] = Record(InfoOf(call.cmd))
    /\ Refused(last.v, "source file is newer")

\* C4: with caching disabled is_cached_file_valid returns False whatever
\* the files are, save_cache_info leaves the sidecar as it was, and
\* run_ffmpeg_with_error_handling starts the encoder whatever is on disk.
C4_DisabledCache ==
    ~use_cache =>
        /\ last.op = "is_valid" => Refused(last.v, "cache disabled")
        /\ last.op = "save" => sidecar[last.slot] = last.before
        /\ last.op = "run" => (last.invoked = 1 /\ ~last.raised)

\* C4: with caching disabled the encoder ran although the files on disk
\* were a cache that is valid with caching enabled
C4_Witness ==
    /\ ~use_cache /\ last.op = "run" /\ last.invoked = 1
    /\ is_cached_file_valid(TRUE, last.found.temp, src[last.slot].mtime,
                            last.found.cache_file, InfoOf(call.cmd)).valid

\* the canonical names the claim gives, on the encoder names tried
ClaimedCanonical(codec_name) ==
    CASE codec_name \in {"libx264", "h264_nvenc", "h264_qsv",
                         "LIBX264", "H264_NVENC"} -> "h264"
      [] codec_name \in {"libx265", "hevc_nvenc"} -> "hevc"
      [] codec_name \in {"libfdk_aac", "aac", "AAC"} -> "aac"
      [] codec_name \in {"vp9", "VP9"} -> "vp9"

\* the probed file has what the fingerprint expects, codecs left aside
ProbeAgreesButCodecs(temp, current_expected) ==
    /\ temp.video.present /\ temp.audio.present
    /\ temp.video.resolution = Get(current_expected, "resolution")
    /\ temp.video.pix_fmt = Get(current_expected, "pixel_format")
    /\ temp.audio.sample_rate = Get(current_expected, "sample_rate")
    /\ Abs(temp.duration - Get(current_expected, "duration"))
          <= DurationTolerance

\* C5: normalize_codec_name maps libx264, h264_nvenc, h264_qsv to h264,
\* libx265, hevc_nvenc to hevc, libfdk_aac to aac, whatever the case of the
\* letters, and any other name to its lower case; and a file whose probe
\* reports the canonical names of the expected encoders passes the probe
\* comparison.
C5_CodecNormalization ==
    /\ last.op = "normalize" =>
          last.result = ClaimedCanonical(last.codec_name)
    /\ (/\ last.op = "is_valid" /\ use_cache
        /\ art[last.slot].exists /\ art[last.slot].size # 0
        /\ art[last.slot].mtime > src[last.slot].mtime
        /\ sidecar[last.slot] = Record(InfoOf(call.cmd))
        /\ ProbeAgreesButCodecs(art[last.slot], InfoOf(call.cmd).expected)
        /\ art[last.slot].video.codec
              = ClaimedCanonical(OptValue(call.cmd, "-c:v"))
        /\ art[last.slot].audio.codec
              = ClaimedCanonical(OptValue(call.cmd, "-c:a")))
       => last.v.valid

\* C5: a file probed as h264 passed for a command that names h264_nvenc
C5_Witness ==
    /\ last.op = "is_valid"
    /\ OptValue(call.cmd, "-c:v") = "h264_nvenc"
    /\ art[last.slot].video.codec = "h264"
    /\ last.v.valid /\ last.v.probed

\* C6 (as stated): a sidecar recorded with libx264 and a current
\* fingerprint that names h264_nvenc, every other key parameter equal, the
\* temp file being the one the sidecar describes and newer than the source:
\* is_cached_file_valid returns True.
C6_BackendSwitchKeepsCache ==
    (/\ last.op = "is_valid" /\ use_cache
     /\ art[last.slot].exists /\ art[last.slot].size # 0
     /\ art[last.slot].mtime > src[last.slot].mtime
     /\ sidecar[last.slot].kind = "record"
     /\ Get(sidecar[last.slot].info.expected, "video_codec") = "libx264"
     /\ Get(InfoOf(call.cmd).expected, "video_codec") = "h264_nvenc"
     /\ \A param \in KeyParams \ {"video_codec"} :
           Get(sidecar[last.slot].info.expected, param)
             = Get(InfoOf(call.cmd).expected, param)
     /\ ProbeMismatch(art[last.slot], sidecar[last.slot].info.expected) = "")
    => last.v.valid

\* C7 (as stated): after a production that ended because the encoder
\* failed, neither the temp file nor its sidecar exists, whether caching
\* is enabled or not, and the production returned failure.
C7_FailureLeavesNothing ==
    (Produced /\ EncoderFailedLast)
    => /\ ~art[last.slot].exists
       /\ sidecar[last.slot].kind = "absent"
       /\ ~last.ret

\* C7, the case that holds: the same with caching enabled.
C7_FailureLeavesNothingWhenCaching ==
    (Produced /\ EncoderFailedLast /\ last.use_cache)
    => /\ ~art[last.slot].exists
       /\ sidecar[last.slot].kind = "absent"
       /\ ~last.ret

\* C8 (as stated): a production, caching enabled, of a slot whose sidecar
\* was damaged just before: nothing is raised, the cache is reported
\* invalid, the damaged sidecar is gone, the encoder is started, and the
\* production fails only if the encoder does.
C8_CorruptSidecarIsAMiss ==
    (Produced /\ last.prev.op = "corrupt" /\ last.prev.slot = last.slot
       /\ last.use_cache)
    => /\ ~last.caught
       /\ ~last.was_valid
       /\ sidecar[last.slot].kind \notin CorruptKinds
       /\ last.invocations >= 1
       /\ (last.ret \/ EncoderFailedLast)

\* C8, the case that holds: the same for a sidecar that is no JSON at all.
C8_UnparseableSidecarIsAMiss ==
    (Produced /\ last.prev.op = "corrupt" /\ last.prev.slot = last.slot
       /\ last.use_cache /\ last.prev.kind = "garbage")
    => /\ ~last.caught
       /\ ~last.was_valid
       /\ sidecar[last.slot].kind \notin CorruptKinds
       /\ last.invocations >= 1
       /\ (last.ret \/ EncoderFailedLast)

\* the background the last production's slot resolves to
ResolvedBackground ==
    find_audio_background(src[last.slot].name, dir.custom, dir.listing)

\* C9: an AUDIO production with no background image makes one attempt, with
\* the black background; one whose attempt with the image ends in an
\* encoder failure makes exactly one more, with the black background, and
\* returns what that one returns; none starts the encoder more than twice.
C9_AudioFallback ==
    (Produced /\ src[last.slot].role = "AUDIO") =>
        /\ ResolvedBackground.path = NoPath =>
              /\ Len(last.runs) = 1
              /\ last.runs[1].background = "black"
        /\ ResolvedBackground.path # NoPath =>
              /\ last.runs[1].background = "image"
              /\ (last.runs[1].invoked = 1 /\ ~last.runs[1].ret) =>
                    /\ Len(last.runs) = 2
                    /\ last.runs[2].background = "black"
                    /\ last.runs[2].invoked = 1
                    /\ last.ret = last.runs[2].ret
              /\ last.runs[1].ret => (Len(last.runs) = 1 /\ last.ret)
        /\ last.invocations <= 2

\* C9: the image failed and the black background succeeded
C9_Witness ==
    /\ Produced /\ src[last.slot].role = "AUDIO"
    /\ Len(last.runs) = 2 /\ ~last.runs[1].ret /\ last.runs[2].ret
    /\ last.ret /\ last.invocations = 2

\* the entries of the listing that are PNG files with this stem, any case
PngsNamed(listing, stem) ==
    {i \in 1..Len(listing) :
        /\ listing[i].is_file
        /\ Lower(listing[i].suffix) = ".png"
        /\ Lower(listing[i].stem) = Lower(stem)}

MaxExprLen == 4
\* largest max_files tried with the expressions over RangeChars
MaxIndex == 2

Max(a, b) == IF a >= b THEN a ELSE b
Least(S) == CHOOSE x \in S : \A y \in S : x <= y
Greatest(S) == CHOOSE x \in S : \A y \in S : x >= y

DigitChars == <<"0", "1", "2", "3", "4", "5", "6", "7", "8", "9">>
DigitValue(c) == (CHOOSE i \in 1..10 : DigitChars[i] = c) - 1

\* str.strip(): the blank is the only white space of the expressions tried
strip(s) ==
    LET keep == {i \in DOMAIN s : s[i] # " "}
    IN  IF keep = {} THEN <<>> ELSE SubSeq(s, Least(keep), Greatest(keep))

Positions(s, sep) == {i \in DOMAIN s : s[i] = sep}

\* str.split(sep)
RECURSIVE split(_, _)
split(s, sep) ==
    IF Positions(s, sep) = {} THEN <<s>>
    ELSE \* the first separator
         LET i == Least(Positions(s, sep))
         IN  <<SubSeq(s, 1, i - 1)>> \o split(SubSeq(s, i + 1, Len(s)), sep)

\* str.split(sep, 1) of a string that holds sep
SplitOnce(s, sep) ==
    LET i == Least(Positions(s, sep))
    IN  <<SubSeq(s, 1, i - 1), SubSeq(s, i + 1, Len(s))>>

\* sep.join(parts)
RECURSIVE join(_, _)
join(parts, sep) ==
    IF parts = <<>> THEN <<>>
    ELSE IF Len(parts) = 1 THEN parts[1]
    ELSE parts[1] \o <<sep>> \o join(Tail(parts), sep)

\* the number a string of decimal digits denotes
RECURSIVE DigitsValue(_)
DigitsValue(s) ==
    IF s = <<>> THEN 0
    ELSE 10 * DigitsValue(SubSeq(s, 1, Len(s) - 1)) + DigitValue(s[Len(s)])

\* str(n) of a natural number
RECURSIVE str(_)
str(n) ==
    IF n < 10 THEN <<DigitChars[n + 1]>>
    ELSE str(n \div 10) \o <<DigitChars[(n % 10) + 1]>>

\* what int() gives: a value, or a ValueError
ValueError == [ok |-> FALSE, value |-> 0]

\* the digits after the sign, if the text has a sign
Unsigned(t) == IF t # <<>> /\ t[1] \in {"+", "-"} THEN Tail(t) ELSE t
Sign(t) == IF t # <<>> /\ t[1] = "-" THEN -1 ELSE 1

\* int(text) of a stripped text: an optional sign and decimal digits, a
\* ValueError for anything else
IntOfStripped(t) ==
    IF Unsigned(t) = <<>>
       \/ \E i \in DOMAIN Unsigned(t) :
             \A d \in 1..10 : DigitChars[d] # Unsigned(t)[i]
    THEN ValueError
    ELSE [ok |-> TRUE, value |-> Sign(t) * DigitsValue(Unsigned(t))]

\* int(text): white space around the number is accepted
int(s) == IntOfStripped(strip(s))

\* sorted(list(indices))
RECURSIVE sorted(_)
sorted(S) ==
    IF S = {} THEN <<>> ELSE <<Least(S)>> \o sorted(S \ {Least(S)})

\* lines 143-153: swap if backwards, clamp, add every number of the range
RangeIndices(start, end, max_files) ==
    Max(1, Min(start, end)) .. Min(max_files, Max(start, end))

\* lines 135-141 of a range whose start was read: the end, or max_files
RangeEnd(end_str, max_files) ==
    IF end_str = <<>> THEN [ok |-> TRUE, value |-> max_files]
    ELSE int(end_str)

\* lines 128-157: what a part with a '-' adds to indices
RangeFromInts(start, end, max_files) ==
    IF start.ok /\ end.ok
    THEN RangeIndices(start.value, end.value, max_files)
    ELSE {}

RangePart(range_parts, max_files) ==
    RangeFromInts(int(strip(range_parts[1])),
                  RangeEnd(strip(range_parts[2]), max_files), max_files)

\* lines 159-167: what a part without '-' adds to indices
NumberPart(part, max_files) ==
    IF int(part).ok THEN {Max(1, Min(max_files, int(part).value))} ELSE {}

\* lines 124-167, the body of the loop for a stripped part
PartIndices(part, max_files) ==
    IF part = <<>> THEN {}
    ELSE IF Positions(part, "-") # {}
    THEN RangePart(SplitOnce(part, "-"), max_files)
    ELSE NumberPart(part, max_files)

\* lines 122-167 for the list of the parts
IndicesOf(parts, max_files) ==
    UNION {PartIndices(strip(parts[i]), max_files) : i \in DOMAIN parts}

\* parse_range(range_str, max_files)
parse_range(range_str, max_files) ==
    IF strip(range_str) = <<>>
    THEN [i \in 1..max_files |-> i]
    ELSE sorted(IndicesOf(split(strip(range_str), ","), max_files))

\* lines 66-80: the text a stripped, non-empty part is formatted to
FormatRange(range_parts, max_files) ==
    strip(range_parts[1]) \o <<"_">> \o
        (IF strip(range_parts[2]) = <<>>
         THEN str(max_files)
         ELSE strip(range_parts[2]))

FormatPart(part, max_files) ==
    IF Positions(part, "-") # {}
    THEN FormatRange(SplitOnce(part, "-"), max_files)
    ELSE part

\* line 59 and lines 62-64: the stripped parts that are not empty
StrippedParts(parts) == [i \in DOMAIN parts |-> strip(parts[i])]
NonEmpty(parts) == SelectSeq(parts, LAMBDA p : p # <<>>)

FormattedParts(parts, max_files) ==
    [i \in DOMAIN parts |-> FormatPart(parts[i], max_files)]

\* a rendering that copies the expression behind the operation
format_range_indicator_verbatim(range_str, operation, max_files) ==
    IF strip(range_str) = <<>>
    THEN <<operation, "0">>
    ELSE <<operation>> \o join(NonEmpty(StrippedParts(split(range_str, ","))), ",")

\* format_range_indicator(range_str, operation, max_files)
format_range_indicator(range_str, operation, max_files) ==
    IF strip(range_str) = <<>>
    THEN <<operation, "0">>
    ELSE <<operation>> \o
         join(FormattedParts(NonEmpty(StrippedParts(split(range_str, ","))),
                             max_files), ",")

\* the characters of the expressions that are enumerated
RangeChars == {"1", "3", "-", ",", " ", "x"}

\* expressions of the tests and of the documentation, with their max_files
RangeExamples ==
    {[range_str |-> <<"1", ",", "3", "-", "5", ",", "8", "-">>, max_files |-> 12],
     [range_str |-> <<"1", ",", "3", "-", "5", ",", "8", "-">>, max_files |-> 10],
     [range_str |-> <<"a", "b", "c">>, max_files |-> 5],
     [range_str |-> <<"1", "-", "a", "b", "c">>, max_files |-> 5],
     [range_str |-> <<"0", "-", "3">>, max_files |-> 5],
     [range_str |-> <<"3", "-", "1", "0">>, max_files |-> 5],
     [range_str |-> <<"1", "5">>, max_files |-> 10],
     [range_str |-> <<"5", "-", "1">>, max_files |-> 10],
     [range_str |-> <<"3", "-">>, max_files |-> 10],
     [range_str |-> <<"8", "-">>, max_files |-> 5],
     [range_str |-> <<"7", "-", "9">>, max_files |-> 5],
     [range_str |-> <<"5", ",", "1", ",", "3">>, max_files |-> 5],
     [range_str |-> <<" ", " ">>, max_files |-> 3]}

RangeCalls ==
    RangeExamples \cup
    {[range_str |-> e, max_files |-> n] :
        e \in UNION {[1..k -> RangeChars] : k \in 0..MaxExprLen},
        n \in 0..MaxIndex}

InitRange ==
    /\ use_cache = TRUE
    /\ now = 0
    /\ src = <<>>
    /\ art = <<>>
    /\ sidecar = <<>>
    /\ dir = [listing |-> <<>>, custom |-> NoCustom]
    /\ call \in RangeCalls
    /\ last = Idle

\* parse_range(range_str, max_files)
CallParseRange ==
    /\ last' = [op |-> "parse_range", slot |-> 0, good |-> FALSE,
                result |-> parse_range(call.range_str, call.max_files)]
    /\ UNCHANGED <<use_cache, now, src, art, sidecar, dir, call>>

\* format_range_indicator(range_str, operation, max_files)
CallFormatRange(operation) ==
    /\ last' = [op |-> "format_range_indicator", slot |-> 0, good |-> FALSE,
                operation |-> operation,
                result |-> format_range_indicator(call.range_str, operation,
                                                  call.max_files)]
    /\ UNCHANGED <<use_cache, now, src, art, sidecar, dir, call>>

NextRange ==
    \/ CallParseRange
    \/ \E operation \in {"M", "R"} : CallFormatRange(operation)

SpecRange == InitRange /\ [][NextRange]_vars

\* ------------------------------------------------------------ merge flow
\* src/media2vid.py: main with determine_files_to_process and
\* create_final_output, one run of the program after the other in one
\* directory.  In this flow the clock counts seconds and advances between
\* two runs only; an encoder run stamps its file with the next reading.

\* runs of the program in one directory
MaxRuns == 2
\* slots of the largest plan
MaxSlots == 3
\* get_user_action: total_files
TotalFiles == 18

\* create_processing_order's result for a plan: (index, filename, file_type)
processing_order(plan) ==
    [k \in DOMAIN plan |->
        [index |-> k, filename |-> FileName(plan[k].name),
         file_type |-> plan[k].role]]

\* x in list
Contains(list, x) == \E i \in DOMAIN list : list[i] = x

\* the selected items in the order the indices were entered
SelectedItems_as_entered(order, selected_indices) ==
    LET entered == SelectSeq(selected_indices, LAMBDA x : x \in DOMAIN order)
    IN  [i \in DOMAIN entered |-> order[entered[i]]]

\* the items of the plan whose index is selected, in the plan's order
SelectedItems(order, selected_indices) ==
    SelectSeq(order, LAMBDA item : Contains(selected_indices, item.index))

TempPaths(items) == [i \in DOMAIN items |-> TempPath(items[i].index)]

\* a determine_files_to_process that lists the temp files in the order the
\* indices were entered
determine_files_to_process_as_entered(action, selected_indices, order, temps) ==
    [files_to_process |->
        IF action = "M"
        THEN SelectSeq(SelectedItems(order, selected_indices),
                       LAMBDA item : ~temps[item.index].exists)
        ELSE order,
     temp_files_for_merge |->
        IF action = "M"
        THEN [i \in DOMAIN SelectSeq(selected_indices, LAMBDA x : x \in DOMAIN order)
                |-> TempPath(SelectSeq(selected_indices,
                                       LAMBDA x : x \in DOMAIN order)[i])]
        ELSE <<>>]

\* a determine_files_to_process that has every selected slot produced
determine_files_to_process_all_selected(action, selected_indices, order, temps) ==
    [files_to_process |->
        IF action = "Y" THEN order ELSE SelectedItems(order, selected_indices),
     temp_files_for_merge |->
        IF action = "M" THEN TempPaths(SelectedItems(order, selected_indices))
        ELSE <<>>]

\* determine_files_to_process(action, selected_indices, processing_order),
\* temps being the temp files on disk
determine_files_to_process(action, selected_indices, order, temps) ==
    IF action = "M"
    THEN [files_to_process |->
              SelectSeq(SelectedItems(order, selected_indices),
                        LAMBDA item : ~temps[item.index].exists),
          temp_files_for_merge |->
              TempPaths(SelectedItems(order, selected_indices))]
    ELSE IF action = "R"
    THEN [files_to_process |-> SelectedItems(order, selected_indices),
          temp_files_for_merge |-> <<>>]
    ELSE [files_to_process |-> order, temp_files_for_merge |-> <<>>]

\* format_range_indicator(indices, operation) of src/media2vid.py
RangeIndicator(indices, operation) ==
    IF indices = <<>> THEN operation \o "0"
    ELSE IF Len(indices) = 1 THEN operation \o ToString(indices[1])
    ELSE operation \o ToString(Least({indices[i] : i \in DOMAIN indices}))
                   \o "_"
                   \o ToString(Greatest({indices[i] : i \in DOMAIN indices}))

\* the first 35 characters of the sanitized name of the working directory
OutputBaseName == "My Videos"

\* generate_output_filename(range_info), the clock reading clock seconds
generate_output_filename(range_info, clock) ==
    IF range_info # None
    THEN OutputBaseName \o "-" \o range_info \o "-" \o ToString(clock) \o ".mp4"
    ELSE OutputBaseName \o "-MERGED-" \o ToString(clock) \o ".mp4"

\* Path(temp_file).name of a temp file path
TempName(index) == "temp_" \o ToString(index - 1) \o ".mp4"
IndexOfPath(path) == CHOOSE k \in 1..TotalFiles : TempPath(k) = path

\* the lines of filelist.txt for a list of temp file paths
FileList(temp_files) ==
    [i \in DOMAIN temp_files |->
        "file '" \o TempName(IndexOfPath(temp_files[i])) \o "'"]

\* the slot a line of filelist.txt names
SlotOfLine(line) ==
    CHOOSE k \in 1..TotalFiles : line = "file '" \o TempName(k) \o "'"

\* lines 970-979 of create_final_output: the list handed over if it is
\* not empty, else the temp files of the processed items that exist
TempFilesToJoin(files_processed, temp_files_for_merge, temps) ==
    IF temp_files_for_merge # <<>>
    THEN temp_files_for_merge
    ELSE TempPaths(SelectSeq(files_processed,
                             LAMBDA item : temps[item.index].exists))

\* the final outputs on disk are pairs of a path and the run that wrote it
Written(outputs, path, run) ==
    {o \in outputs : o.path # path} \cup {[path |-> path, run |-> run]}
Removed(outputs, path) == {o \in outputs : o.path # path}
PathExists(outputs, path) == \E o \in outputs : o.path = path

\* run_ffmpeg_with_error_handling of src/media2vid.py for file_type CONCAT:
\* no cache; the encoder writes output_path or fails, and after a failure
\* output_path is unlinked if it exists
JoinRun(mode, outputs, output_path, run, encoder_ok) ==
    IF encoder_ok
    THEN [mode |-> mode, ret |-> TRUE, outputs |-> Written(outputs, output_path, run)]
    ELSE [mode |-> mode, ret |-> FALSE, outputs |-> Removed(outputs, output_path)]

\* lines 990-1012: stream copy, re-encoding if that failed, and the value
\* returned
JoinResult(path, filelist, first, second) ==
    IF first.ret
    THEN [ret |-> PathExists(first.outputs, path), joins |-> <<first>>,
          path |-> path, filelist |-> filelist, outputs |-> first.outputs]
    ELSE [ret |-> second.ret /\ PathExists(second.outputs, path),
          joins |-> <<first, second>>,
          path |-> path, filelist |-> filelist, outputs |-> second.outputs]

JoinTwice(path, filelist, outputs, run, oks) ==
    JoinResult(path, filelist,
               JoinRun("copy", outputs, path, run, oks[1]),
               JoinRun("reencode", Removed(outputs, path), path, run, oks[2]))

\* a create_final_output without the fallback to re-encoding
create_final_output_copy_only(files_processed, action, selected_indices, temp_files_for_merge, temps, outputs, clock, run, oks) ==
    JoinTwice(generate_output_filename(
                  IF selected_indices # <<>> /\ action = "M"
                  THEN RangeIndicator(selected_indices, action) ELSE None,
                  clock),
              FileList(TempFilesToJoin(files_processed, temp_files_for_merge,
                                       temps)),
              outputs, run, <<oks[1], FALSE>>)

\* create_final_output(files_processed, action, selected_indices,
\* temp_files_for_merge): temps and outputs are the files on disk, oks the
\* outcomes of the two encoder runs
create_final_output(files_processed, action, selected_indices, temp_files_for_merge, temps, outputs, clock, run, oks) ==
    JoinTwice(generate_output_filename(
                  IF selected_indices # <<>> /\ action = "M"
                  THEN RangeIndicator(selected_indices, action) ELSE None,
                  clock),
              FileList(TempFilesToJoin(files_processed, temp_files_for_merge,
                                       temps)),
              outputs, run, oks)

\* the encoder can join a list that is not empty and names files that exist
Joinable(filelist, temps) ==
    /\ filelist # <<>>
    /\ \A i \in DOMAIN filelist :
          /\ SlotOfLine(filelist[i]) \in DOMAIN temps
          /\ temps[SlotOfLine(filelist[i])].exists

\* the role of the slot at an index of the plans tried
RoleAt(index) ==
    IF index = 1 THEN "INTRO" ELSE IF index = 2 THEN "VIDEO" ELSE "AUDIO"

MergePlans ==
    {[k \in 1..n |-> SourceOf(RoleAt(k), k)] : n \in 1..MaxSlots}

\* the selections parse_range handed to main that are tried, in the order
\* the indices were entered
Selections ==
    {<<1>>, <<2>>, <<2, 1>>, <<5, 1, 3>>, <<1, 2, 3, 4>>, <<TotalFiles>>}

\* no run of the program is under way; after the action C, action and
\* cleared keep that the cache was cleared and which temp files there were
NoRun(run) ==
    [cmd |-> <<>>, pc |-> "idle", run |-> run, action |-> "",
     selected_indices |-> <<>>, files_to_process |-> <<>>, todo |-> <<>>,
     temp_files_for_merge |-> <<>>, missing |-> {}, produced |-> <<>>,
     caches |-> <<>>, encoded |-> {}, after_clear |-> FALSE, cleared |-> {}]

InitMerge ==
    /\ use_cache = TRUE
    /\ now = 0
    /\ src \in MergePlans
    /\ art = [k \in DOMAIN src |-> NoFile]
    /\ sidecar = [k \in DOMAIN src |-> NoSidecar]
    /\ dir = [listing |-> [k \in DOMAIN src |-> src[k].name],
              custom |-> NoCustom, filelist |-> <<>>, outputs |-> {}]
    /\ call = NoRun(0)
    /\ last = Idle

\* main up to the loop: the action and the selection get_user_action
\* returned, the sidecars removed for R (call.caches keeps what they
\* were), determine_files_to_process
StartRun(action, selected_indices) ==
    /\ call.pc = "idle"
    /\ call.run < MaxRuns
    /\ \E d \in {determine_files_to_process(action, selected_indices,
                                            processing_order(src), art)} :
          call' = [cmd |-> <<>>, pc |-> "process", run |-> call.run + 1,
                   action |-> action, selected_indices |-> selected_indices,
                   files_to_process |-> d.files_to_process,
                   todo |-> d.files_to_process,
                   temp_files_for_merge |-> d.temp_files_for_merge,
                   missing |-> {k \in DOMAIN src :
                                   /\ Contains(selected_indices, k)
                                   /\ ~art[k].exists},
                   produced |-> <<>>,
                   caches |-> IF action = "R" THEN sidecar ELSE <<>>,
                   encoded |-> {},
                   after_clear |-> call.action = "C",
                   cleared |-> call.cleared]
    /\ sidecar' = [k \in DOMAIN src |->
                      IF action = "R" /\ Contains(selected_indices, k)
                      THEN NoSidecar ELSE sidecar[k]]
    /\ last' = [op |-> "start_run", slot |-> 0, good |-> FALSE]
    /\ UNCHANGED <<use_cache, now, src, art, dir>>

\* one turn of main's loop: the producer of the next file to process; the
\* program exits when it fails
ProcessNext ==
    /\ call.pc = "process"
    /\ call.todo # <<>>
    /\ \E k \in {Head(call.todo).index} :
       \E oks \in Outcomes(src[k].role) :
       \E p \in {ProcessSlot(use_cache, k, src[k], dir, art[k], sidecar[k],
                             oks, now)} :
          /\ art' = [art EXCEPT ![k] = p.temp]
          /\ sidecar' = [sidecar EXCEPT ![k] = p.cache_file]
          /\ call' = IF p.ret
                     THEN [call EXCEPT !.todo = Tail(call.todo),
                                       !.produced = Append(call.produced, k),
                                       !.encoded = IF SumInvoked(p.runs) > 0
                                                   THEN call.encoded \cup {k}
                                                   ELSE call.encoded]
                     ELSE NoRun(call.run)
          /\ last' = [op |-> "process", slot |-> k, good |-> p.ret,
                      invoked |-> SumInvoked(p.runs),
                      action |-> call.action,
                      selected_indices |-> call.selected_indices,
                      produced |-> call.produced, todo |-> Tail(call.todo),
                      temp_before |-> art[k],
                      cache_before |-> IF call.action = "R"
                                       THEN call.caches[k] ELSE sidecar[k],
                      after_clear |-> call.after_clear,
                      cleared |-> k \in call.cleared]
    /\ UNCHANGED <<use_cache, now, src, dir>>

\* "R operation stops here"
FinishRerender ==
    /\ call.pc = "process"
    /\ call.todo = <<>>
    /\ call.action = "R"
    /\ call' = NoRun(call.run)
    /\ last' = [op |-> "rerendered", slot |-> 0, good |-> TRUE,
                selected_indices |-> call.selected_indices,
                encoded |-> call.encoded]
    /\ UNCHANGED <<use_cache, now, src, art, sidecar, dir>>

\* a clear_cache that removes the *.cache files of the working directory
\* only
clear_cache_without_rmtree(temps, caches, d) ==
    [temps |-> temps, caches |-> caches, dir |-> d]

\* clear_cache(): the temp_ directory, which holds the temp files, their
\* sidecars and filelist.txt, is removed, and the *.cache files of the
\* working directory, of which the program writes none, are unlinked
clear_cache(temps, caches, d) ==
    [temps |-> [k \in DOMAIN temps |-> NoFile],
     caches |-> [k \in DOMAIN caches |-> NoSidecar],
     dir |-> [d EXCEPT !.filelist = <<>>]]

\* main with the action C: handle_special_operations('C') clears the cache
\* and exits
ClearCache ==
    /\ call.pc = "idle"
    /\ call.run < MaxRuns
    /\ \E c \in {clear_cache(art, sidecar, dir)} :
          /\ art' = c.temps
          /\ sidecar' = c.caches
          /\ dir' = c.dir
    /\ call' = [NoRun(call.run) EXCEPT
                   !.action = "C",
                   !.cleared = {k \in DOMAIN src : art[k].exists}]
    /\ last' = [op |-> "clear_cache", slot |-> 0, good |-> TRUE,
                outputs_before |-> dir.outputs, temps_before |-> art,
                caches_before |-> sidecar]
    /\ UNCHANGED <<use_cache, now, src>>

\* what the run leaves in last when create_final_output has returned
Merged(r, oks, should_cleanup) ==
    [op |-> "merge", slot |-> 0, good |-> r.ret, ret |-> r.ret,
     joins |-> [i \in DOMAIN r.joins |-> r.joins[i].mode],
     encoder_oks |-> oks, clock |-> now, run |-> call.run,
     path |-> r.path, filelist |-> r.filelist,
     joinable |-> Joinable(r.filelist, art),
     action |-> call.action, selected_indices |-> call.selected_indices,
     missing |-> call.missing, produced |-> call.produced,
     outputs_before |-> dir.outputs, temps_before |-> art,
     caches_before |-> sidecar, cleanup |-> r.ret /\ should_cleanup]

\* main's stage 5: create_final_output, and after a success the temp
\* directory removed if the user asks for it
CreateFinalOutput ==
    /\ call.pc = "process"
    /\ call.todo = <<>>
    /\ call.action \in {"Y", "M"}
    /\ \E oks \in {<<TRUE, TRUE>>, <<FALSE, TRUE>>, <<FALSE, FALSE>>} :
       \E should_cleanup \in BOOLEAN :
       \E r \in {create_final_output(
                    IF call.files_to_process # <<>>
                    THEN call.files_to_process ELSE processing_order(src),
                    call.action, call.selected_indices,
                    call.temp_files_for_merge, art, dir.outputs, now,
                    call.run, oks)} :
          /\ Joinable(r.filelist, art) \/ oks = <<FALSE, FALSE>>
          /\ dir' = [dir EXCEPT !.outputs = r.outputs,
                                !.filelist = IF r.ret /\ should_cleanup
                                             THEN <<>> ELSE r.filelist]
          /\ art' = IF r.ret /\ should_cleanup
                    THEN [k \in DOMAIN src |-> NoFile] ELSE art
          /\ sidecar' = IF r.ret /\ should_cleanup
                        THEN [k \in DOMAIN src |-> NoSidecar] ELSE sidecar
          /\ last' = Merged(r, oks, should_cleanup)
    /\ call' = NoRun(call.run)
    /\ UNCHANGED <<use_cache, now, src>>

\* a second passes between two runs.  What the file names depend on is
\* whether two runs fall into the same second: the clock advances at most
\* once after every run.
Tick ==
    /\ call.pc = "idle"
    /\ now < call.run
    /\ now < MaxClock
    /\ now' = now + 1
    /\ UNCHANGED <<use_cache, src, art, sidecar, dir, call, last>>

NextMerge ==
    \/ StartRun("Y", <<>>)
    \/ \E selected_indices \in Selections : StartRun("M", selected_indices)
    \/ \E selected_indices \in Selections : StartRun("R", selected_indices)
    \/ ProcessNext
    \/ FinishRerender
    \/ CreateFinalOutput
    \/ ClearCache
    \/ Tick

SpecMerge == InitMerge /\ [][NextMerge]_vars

\* ------------------------------------------------- the range main parses
\* src/media2vid.py: get_user_action reads the range for R and M and hands
\* it to the parse_range of the same file, with total_files = 18

\* list(range(start, end + 1))
RangeList(start, end) ==
    [i \in 1..Max(0, end - start + 1) |-> start + i - 1]

\* the branch of a text with '-': split('-', 1), both parts through int,
\* swapped if backwards and clamped
MainRangeOfParts(parts, max_files) ==
    IF ~int(parts[1]).ok \/ ~int(parts[2]).ok THEN <<>>
    ELSE RangeList(Max(1, Min(int(parts[1]).value, int(parts[2]).value)),
                   Min(max_files,
                       Max(int(parts[1]).value, int(parts[2]).value)))

\* parse_range(range_str, max_files) of src/media2vid.py
main_parse_range(range_str, max_files) ==
    IF strip(range_str) = <<>> THEN RangeList(1, max_files)
    ELSE IF Contains(strip(range_str), "-")
    THEN MainRangeOfParts(SplitOnce(strip(range_str), "-"), max_files)
    ELSE IF ~int(strip(range_str)).ok THEN <<>>
    ELSE <<Max(1, Min(max_files, int(strip(range_str)).value))>>

\* get_user_action after the key R or M: the line typed is parsed with
\* total_files, and the program exits when the selection is empty.  The
\* plan of the run has call.max_files slots, one at least: main exits
\* before the prompt when it found no file.
EnterRangeFor(action) ==
    /\ call.max_files >= 1
    /\ \E selected_indices \in {main_parse_range(call.range_str, TotalFiles)} :
          last' = [op |-> "get_user_action", slot |-> 0,
                   good |-> selected_indices # <<>>,
                   action |-> action,
                   selected_indices |-> selected_indices,
                   plan_slots |-> call.max_files,
                   files_to_process |->
                       determine_files_to_process(
                           action, selected_indices,
                           [k \in 1..call.max_files |->
                               [index |-> k, filename |-> "", file_type |-> "VIDEO"]],
                           [k \in 1..call.max_files |-> NoFile]).files_to_process]
    /\ UNCHANGED <<use_cache, now, src, art, sidecar, dir, call>>

NextSelect == \E action \in {"R", "M"} : EnterRangeFor(action)

SpecSelect == InitRange /\ [][NextSelect]_vars

\* ------------------------------------------- runs over modified sources

\* between two runs the user modifies the source file of a slot whose temp
\* file exists: the source is then newer than the temp file
TouchSource(k) ==
    /\ call.pc = "idle"
    /\ art[k].exists
    /\ src[k].mtime <= art[k].mtime
    /\ art[k].mtime + 1 <= MaxClock
    /\ now' = Max(now, art[k].mtime + 1)
    /\ src' = [src EXCEPT ![k].mtime = Max(now, art[k].mtime + 1)]
    /\ last' = [op |-> "touch", slot |-> k, good |-> FALSE]
    /\ UNCHANGED <<use_cache, art, sidecar, dir, call>>

NextStale ==
    \/ NextMerge
    \/ \E k \in Slots : TouchSource(k)

\* the runs of main on a directory whose sources are modified between them
SpecStale == InitMerge /\ [][NextStale]_vars

\* ------------------------------------------ runs over a changing directory
\* src/media2vid.py: main numbers the files it finds anew in every run, and
\* the temp file of a slot is addressed by the slot's index.  Files are
\* moved into and out of the input directory between the runs.

\* the video files the user has: clip1.mp4, clip2.mp4 of 20 s and
\* clip3.mp4 of 9 s, sorted by their names in this order
PoolIds == {1, 2, 3}
PoolFile(id) ==
    [SourceOf("VIDEO", id) EXCEPT !.dur = IF id = 3 THEN 90 ELSE 200]

\* the plan of a directory that holds the files of a set of ids
PlanOfPool(present) ==
    [k \in DOMAIN sorted(present) |-> PoolFile(sorted(present)[k])]

\* the directory between two runs: the files present, and for every temp
\* file the id of the source it was encoded from, 0 for none
Directory(present, made_from, todo) ==
    [cmd |-> <<>>, present |-> present, made_from |-> made_from, todo |-> todo]

InitShift ==
    /\ use_cache = TRUE
    /\ now = 0
    /\ \E present \in (SUBSET PoolIds) \ {{}} :
          /\ src = PlanOfPool(present)
          /\ call = Directory(present, [k \in PoolIds |-> 0], <<>>)
          /\ dir = [listing |-> [k \in DOMAIN src |-> src[k].name],
                    custom |-> NoCustom]
    /\ art = [k \in PoolIds |-> NoFile]
    /\ sidecar = [k \in PoolIds |-> NoSidecar]
    /\ last = Idle

\* main begins a run of the action Y: every slot of the plan is to process
StartShiftRun ==
    /\ call.todo = <<>>
    /\ last.op # "start_run"
    /\ call' = [call EXCEPT !.todo = [k \in DOMAIN src |-> k]]
    /\ last' = [op |-> "start_run", slot |-> 0, good |-> FALSE]
    /\ UNCHANGED <<use_cache, now, src, art, sidecar, dir>>

\* one turn of main's loop in that run; the program exits when the
\* producer fails
ProduceShifted ==
    /\ call.todo # <<>>
    /\ \E k \in {Head(call.todo)} :
       \E oks \in Outcomes(src[k].role) :
       \E p \in {ProcessSlot(use_cache, k, src[k], dir, art[k], sidecar[k],
                             oks, now)} :
       \E n \in {SumInvoked(p.runs)} :
          /\ now + n <= MaxClock
          /\ now' = now + n
          /\ art' = [art EXCEPT ![k] = p.temp]
          /\ sidecar' = [sidecar EXCEPT ![k] = p.cache_file]
          /\ call' = [call EXCEPT
                         !.todo = IF p.ret THEN Tail(call.todo) ELSE <<>>,
                         !.made_from[k] =
                             IF n = 0 THEN @
                             ELSE IF p.temp.exists
                             THEN sorted(call.present)[k] ELSE 0]
          /\ last' = [op |-> "produce", slot |-> k, good |-> p.ret,
                      invocations |-> n,
                      source |-> sorted(call.present)[k],
                      made_from |-> call.made_from[k]]
    /\ UNCHANGED <<use_cache, src, dir>>

\* the directory with other files in it: the plan main makes of it
Rearranged(present, op) ==
    /\ src' = PlanOfPool(present)
    /\ dir' = [dir EXCEPT !.listing = [k \in DOMAIN PlanOfPool(present) |->
                                          PlanOfPool(present)[k].name]]
    /\ call' = [call EXCEPT !.present = present]
    /\ last' = [op |-> op, slot |-> 0, good |-> FALSE]
    /\ UNCHANGED <<use_cache, now, art, sidecar>>

\* between two runs a file is moved into the input directory
AddFile(id) ==
    /\ call.todo = <<>>
    /\ id \notin call.present
    /\ Rearranged(call.present \cup {id}, "add")

\* between two runs a file is moved out of the input directory
RemoveFile(id) ==
    /\ call.todo = <<>>
    /\ id \in call.present
    /\ call.present # {id}
    /\ Rearranged(call.present \ {id}, "remove")

NextShift ==
    \/ StartShiftRun
    \/ ProduceShifted
    \/ \E id \in PoolIds : AddFile(id)
    \/ \E id \in PoolIds : RemoveFile(id)

SpecShift == InitShift /\ [][NextShift]_vars

\* -------------------------------------------------------- processing plan
\* src/src/file_utils.py: categorize_media_files, find_intro_image and
\* create_processing_order.  A file name is the sequence of its characters.

\* files of the longest directory listing a plan is made for
MaxFiles == 3

\* the characters of the file names, in the order of their code points
Ascii ==
    <<" ", "-", ".", "0", "1", "2", "3", "4", "5", "6", "7", "8", "9", "A",
      "B", "C", "D", "E", "F", "G", "H", "I", "J", "K", "L", "M", "N", "O",
      "P", "Q", "R", "S", "T", "U", "V", "W", "X", "Y", "Z", "_", "a", "b",
      "c", "d", "e", "f", "g", "h", "i", "j", "k", "l", "m", "n", "o", "p",
      "q", "r", "s", "t", "u", "v", "w", "x", "y", "z">>

CodeOf ==
    [c \in {Ascii[i] : i \in DOMAIN Ascii} |-> CHOOSE i \in DOMAIN Ascii : Ascii[i] = c]

Code(c) == CodeOf[c]

\* str.lower(): the capitals are at 14..39, the small letters 27 further
lower(s) ==
    [i \in DOMAIN s |->
        IF Code(s[i]) \in 14..39 THEN Ascii[Code(s[i]) + 27] ELSE s[i]]

\* a < b for two strings
StrLess(a, b) ==
    \E i \in 1..(Min(Len(a), Len(b)) + 1) :
        /\ \A j \in 1..(i - 1) : a[j] = b[j]
        /\ \/ i = Len(a) + 1 /\ i <= Len(b)
           \/ i <= Len(a) /\ i <= Len(b) /\ Code(a[i]) < Code(b[i])

\* the position of the last dot of a name, 0 if it has none
LastDot(name) == Greatest(Positions(name, ".") \cup {0})

\* Path(name).suffix: from the last dot on, unless that dot is the first
\* or the last character
suffix(name) ==
    IF 1 < LastDot(name) /\ LastDot(name) < Len(name)
    THEN SubSeq(name, LastDot(name), Len(name))
    ELSE <<>>

\* Path(name).stem
stem(name) ==
    IF suffix(name) = <<>> THEN name ELSE SubSeq(name, 1, LastDot(name) - 1)

\* where re.search(r' - (.+)\.[^.]+$', filename) can start: at a " - "
\* with at least one character between it and the last dot, the last dot
\* having at least one character behind it
MatchStarts(filename) ==
    {i \in 1..(Len(filename) - 2) :
        /\ SubSeq(filename, i, i + 2) = <<" ", "-", " ">>
        /\ i + 3 <= LastDot(filename) - 1
        /\ LastDot(filename) < Len(filename)}

\* an extract_person_name that takes the rightmost match of the pattern
extract_person_name_rightmost(filename) ==
    IF MatchStarts(filename) = {} THEN lower(filename)
    ELSE lower(SubSeq(filename, Greatest(MatchStarts(filename)) + 3,
                      LastDot(filename) - 1))

\* extract_person_name(filename): the leftmost match's group, lowercased
extract_person_name(filename) ==
    IF MatchStarts(filename) = {} THEN lower(filename)
    ELSE lower(SubSeq(filename, Least(MatchStarts(filename)) + 3,
                      LastDot(filename) - 1))

\* get_media_extensions()
video_extensions ==
    {<<".", "m", "p", "4">>,
     <<".", "m", "o", "v">>,
     <<".", "a", "v", "i">>,
     <<".", "m", "k", "v">>,
     <<".", "w", "m", "v">>,
     <<".", "f", "l", "v">>,
     <<".", "w", "e", "b", "m">>,
     <<".", "m", "4", "v">>,
     <<".", "3", "g", "p">>,
     <<".", "t", "s">>,
     <<".", "m", "t", "s">>,
     <<".", "v", "o", "b">>}
audio_extensions ==
    {<<".", "m", "p", "3">>,
     <<".", "m", "4", "a">>,
     <<".", "w", "a", "v">>,
     <<".", "f", "l", "a", "c">>,
     <<".", "a", "a", "c">>,
     <<".", "o", "g", "g">>,
     <<".", "w", "m", "a">>,
     <<".", "o", "p", "u", "s">>,
     <<".", "m", "p", "2">>}

\* list.sort(key=extract_person_name): x put behind the items of the
\* sorted list whose key is not greater, which keeps the sort stable
InsertByKey(x, list) ==
    LET k == Cardinality({i \in DOMAIN list :
                 ~StrLess(extract_person_name(x), extract_person_name(list[i]))})
    IN  SubSeq(list, 1, k) \o <<x>> \o SubSeq(list, k + 1, Len(list))

RECURSIVE SortByKey(_)
SortByKey(list) ==
    IF list = <<>> THEN <<>>
    ELSE InsertByKey(list[Len(list)], SortByKey(SubSeq(list, 1, Len(list) - 1)))

\* the category of a file: lines 100-109
Category(name) ==
    IF lower(suffix(name)) = <<".", "p", "n", "g">> THEN "intro"
    ELSE IF lower(suffix(name)) \in video_extensions THEN "video"
    ELSE IF lower(suffix(name)) \in audio_extensions THEN "audio"
    ELSE "ignored"

OfCategory(all_files, category) ==
    SelectSeq(all_files, LAMBDA name : Category(name) = category)

\* a categorize_media_files that leaves the lists as the directory gave
\* them
categorize_media_files_unsorted(all_files) ==
    [video |-> OfCategory(all_files, "video"),
     audio |-> OfCategory(all_files, "audio"),
     intro |-> OfCategory(all_files, "intro"),
     ignored |-> OfCategory(all_files, "ignored")]

\* categorize_media_files(all_files)
categorize_media_files(all_files) ==
    [video |-> SortByKey(OfCategory(all_files, "video")),
     audio |-> SortByKey(OfCategory(all_files, "audio")),
     intro |-> OfCategory(all_files, "intro"),
     ignored |-> OfCategory(all_files, "ignored")]

\* --intro-pic: not given, or the name of a file that exists or does not
NoIntroPic == [given |-> FALSE, exists |-> FALSE, name |-> <<>>]

\* find_intro_image(all_png_files, custom_intro_path): a list of no or one
\* file name
find_intro_image(all_png_files, custom_intro_path) ==
    IF custom_intro_path.given /\ custom_intro_path.exists
    THEN <<custom_intro_path.name>>
    ELSE IF Len(all_png_files) = 1 THEN all_png_files
    ELSE IF \E i \in DOMAIN all_png_files :
                lower(stem(all_png_files[i])) = <<"i", "n", "t", "r", "o", "_", "p", "i", "c">>
    THEN <<all_png_files[
             Least({i \in DOMAIN all_png_files :
                       lower(stem(all_png_files[i])) = <<"i", "n", "t", "r", "o", "_", "p", "i", "c">>})]>>
    ELSE <<>>

Tagged(files, file_type) ==
    [i \in DOMAIN files |-> [filename |-> files[i], file_type |-> file_type]]

Numbered(items) ==
    [i \in DOMAIN items |->
        [index |-> i, filename |-> items[i].filename,
         file_type |-> items[i].file_type]]

\* create_processing_order(intro_files, video_files, audio_files,
\* custom_intro_path)
create_processing_order(intro_files, video_files, audio_files, custom_intro_path) ==
    Numbered(Tagged(find_intro_image(intro_files, custom_intro_path), "INTRO")
             \o Tagged(video_files, "VIDEO")
             \o Tagged(audio_files, "AUDIO"))

\* create_processing_order of src/media2vid.py, which has no --intro-pic:
\* the first PNG of the listing (intro_files[:1])
main_create_processing_order(intro_files, video_files, audio_files) ==
    Numbered(Tagged(SubSeq(intro_files, 1, Min(1, Len(intro_files))), "INTRO")
             \o Tagged(video_files, "VIDEO")
             \o Tagged(audio_files, "AUDIO"))

\* the plan main makes of the files of a directory
PlanOfLists(c, custom_intro_path) ==
    create_processing_order(c.intro, c.video, c.audio, custom_intro_path)

PlanOf(all_files, custom_intro_path) ==
    PlanOfLists(categorize_media_files(all_files), custom_intro_path)

\* the file names the directories are made of
NamePool ==
    {<<"i", "n", "t", "r", "o", ".", "p", "n", "g">>,
     <<"B", " ", "-", " ", "Z", "e", "d", ".", "m", "p", "4">>,
     <<"A", " ", "-", " ", "A", "m", "y", ".", "m", "o", "v">>,
     <<"C", " ", "-", " ", "M", "i", "d", ".", "m", "p", "3">>,
     <<"b", " ", "-", " ", "a", "m", "y", ".", "M", "P", "4">>,
     <<"z", "e", "d", ".", "a", "v", "i">>,
     <<"x", " ", "-", " ", "y", " ", "-", " ", "B", "o", ".", "w", "a", "v">>,
     <<"I", "N", "T", "R", "O", "_", "P", "I", "C", ".", "P", "N", "G">>,
     <<"n", "o", "t", "e", "s", ".", "t", "x", "t">>,
     <<"A", "m", "y", ".", "m", "p", "3">>,
     <<"a", ".", "p", "n", "g">>,
     <<"i", "n", "t", "r", "o", "_", "p", "i", "c", ".", "p", "n", "g">>}

\* the directory of the documentation's example, as listed
ExampleDirectory ==
    <<<<"i", "n", "t", "r", "o", ".", "p", "n", "g">>,
      <<"B", " ", "-", " ", "Z", "e", "d", ".", "m", "p", "4">>,
      <<"A", " ", "-", " ", "A", "m", "y", ".", "m", "o", "v">>,
      <<"C", " ", "-", " ", "M", "i", "d", ".", "m", "p", "3">>>>

\* the listings of at most MaxFiles different files, in any order
Directories ==
    {ExampleDirectory} \cup
    UNION {{l \in [1..n -> NamePool] :
               \A i, j \in 1..n : i # j => l[i] # l[j]} : n \in 0..MaxFiles}

IntroPics ==
    {NoIntroPic,
     [given |-> TRUE, exists |-> TRUE, name |-> <<"t", ".", "p", "n", "g">>],
     [given |-> TRUE, exists |-> FALSE, name |-> <<"t", ".", "p", "n", "g">>]}

InitPlan ==
    /\ use_cache = TRUE
    /\ now = 0
    /\ src = <<>>
    /\ art = <<>>
    /\ sidecar = <<>>
    /\ dir = [listing |-> <<>>, custom |-> NoCustom]
    /\ \E l \in Directories, c \in IntroPics :
          call = [all_files |-> l, custom_intro_path |-> c]
    /\ last = Idle

\* categorize_media_files, then create_processing_order
CallCreatePlan ==
    /\ last.op = "start"
    /\ last' = [op |-> "plan", slot |-> 0, good |-> FALSE,
                result |-> PlanOf(call.all_files, call.custom_intro_path)]
    /\ UNCHANGED <<use_cache, now, src, art, sidecar, dir, call>>

\* main of src/media2vid.py, stage 1: discover_media_files, then its own
\* create_processing_order
MainCreatePlan ==
    /\ last.op = "start"
    /\ call.custom_intro_path = NoIntroPic
    /\ \E c \in {categorize_media_files(call.all_files)} :
          last' = [op |-> "plan_main", slot |-> 0, good |-> FALSE,
                   result |-> main_create_processing_order(c.intro, c.video, c.audio)]
    /\ UNCHANGED <<use_cache, now, src, art, sidecar, dir, call>>

NextPlan ==
    \/ CallCreatePlan
    \/ MainCreatePlan

SpecPlan == InitPlan /\ [][NextPlan]_vars

\* ---------------------------------------------------------------- sort key
\* src/src/file_utils.py: extract_person_name applied to file names.

\* pieces of the longest file name that is enumerated
MaxPieces == 6

\* the pieces the enumerated file names are made of
NamePieces == {<<" ", "-", " ">>, <<"A", "b">>, <<".">>, <<"m", "p", "4">>}

RECURSIVE Flatten(_)
Flatten(parts) == IF parts = <<>> THEN <<>> ELSE parts[1] \o Flatten(Tail(parts))

\* the file names of src/tests/test_file_utils.py, lines 26-43
KeyExamples ==
    {<<"I", "n", "t", "e", "r", "v", "i", "e", "w", " ", "-", " ", "J", "o", "h", "n", " ", "D", "o", "e", ".", "m", "p", "4">>,
     <<"Q", "u", "e", "s", "t", "i", "o", "n", " ", "-", " ", "J", "a", "n", "e", " ", "S", "m", "i", "t", "h", ".", "m", "o", "v">>,
     <<"A", "u", "d", "i", "o", " ", "-", " ", "B", "o", "b", " ", "W", "i", "l", "s", "o", "n", ".", "m", "4", "a">>,
     <<"r", "a", "n", "d", "o", "m", "_", "v", "i", "d", "e", "o", ".", "m", "p", "4">>,
     <<"t", "e", "s", "t", ".", "m", "o", "v">>,
     <<"n", "o", "-", "d", "a", "s", "h", "-", "h", "e", "r", "e", ".", "m", "p", "4">>,
     <<"T", "i", "t", "l", "e", " ", "-", " ", ".", "m", "p", "4">>,
     <<"N", "o", "E", "x", "t", "e", "n", "s", "i", "o", "n", " ", "-", " ", "P", "e", "r", "s", "o", "n">>,
     <<"M", "u", "l", "t", "i", "p", "l", "e", " ", "-", " ", "D", "a", "s", "h", "e", "s", " ", "-", " ", "P", "e", "r", "s", "o", "n", " ", "N", "a", "m", "e", ".", "m", "p", "4">>}

FileNames ==
    KeyExamples \cup
    {Flatten(p) : p \in UNION {[1..n -> NamePieces] : n \in 0..MaxPieces}}

InitKey ==
    /\ use_cache = TRUE
    /\ now = 0
    /\ src = <<>>
    /\ art = <<>>
    /\ sidecar = <<>>
    /\ dir = [listing |-> <<>>, custom |-> NoCustom]
    /\ \E filename \in FileNames : call = [filename |-> filename]
    /\ last = Idle

\* extract_person_name(filename)
CallExtractPersonName ==
    /\ last.op = "start"
    /\ last' = [op |-> "extract_person_name", slot |-> 0, good |-> FALSE,
                result |-> extract_person_name(call.filename)]
    /\ UNCHANGED <<use_cache, now, src, art, sidecar, dir, call>>

NextKey == CallExtractPersonName

SpecKey == InitKey /\ [][NextKey]_vars

\* ------------------------------------------------------- exclusion of files
\* src/src/file_utils.py: is_temp_file and discover_media_files, applied to
\* the names of the files a run leaves behind.  A directory entry is a name
\* and whether it is a regular file.

IsDigits(s) ==
    s # <<>> /\ \A k \in DOMAIN s : s[k] \in {DigitChars[d] : d \in 1..10}

\* .*\.mp4$ from position e on
EndsWithMp4(name, e) ==
    /\ Len(name) >= e + 3
    /\ SubSeq(name, Len(name) - 3, Len(name)) = <<".", "m", "p", "4">>

\* re.match(r'^temp_\d+\.mp4$', name)
MatchesTemp(name) ==
    /\ Len(name) > 9
    /\ SubSeq(name, 1, 5) = <<"t", "e", "m", "p", "_">>
    /\ IsDigits(SubSeq(name, 6, Len(name) - 4))
    /\ EndsWithMp4(name, Len(name) - 3)

\* re.search(r'-MERGED-.*\.mp4$', name)
MatchesMerged(name) ==
    \E i \in 1..(Len(name) - 7) :
        SubSeq(name, i, i + 7) = <<"-", "M", "E", "R", "G", "E", "D", "-">> /\ EndsWithMp4(name, i + 8)

\* where \d+(_\d+)?- can end when the digits start at position b
RangeTagEnds(name, b) ==
    {e \in (b + 1)..Len(name) :
        /\ name[e] = "-"
        /\ \/ IsDigits(SubSeq(name, b, e - 1))
           \/ \E u \in (b + 1)..(e - 2) :
                 /\ name[u] = "_"
                 /\ IsDigits(SubSeq(name, b, u - 1))
                 /\ IsDigits(SubSeq(name, u + 1, e - 1))}

\* re.search(r'-(M|R)\d+(_\d+)?-.*\.mp4$', name)
MatchesRangeOutput(name) ==
    \E i \in 1..(Len(name) - 1) :
        /\ name[i] = "-"
        /\ name[i + 1] \in {"M", "R"}
        /\ \E e \in RangeTagEnds(name, i + 2) : EndsWithMp4(name, e + 1)

\* is_temp_file(file_path)
is_temp_file(file_path) ==
    IF ~file_path.is_file THEN TRUE
    ELSE IF MatchesTemp(file_path.name) THEN TRUE
    ELSE IF MatchesMerged(file_path.name) THEN TRUE
    ELSE IF MatchesRangeOutput(file_path.name) THEN TRUE
    ELSE IF file_path.name # <<>> /\ file_path.name[1] \in {".", "~"} THEN TRUE
    ELSE IF file_path.name = <<"f", "i", "l", "e", "l", "i", "s", "t", ".", "t", "x", "t">> THEN TRUE
    ELSE lower(suffix(file_path.name)) \in {<<".", "p", "y">>, <<".", "p", "s", "1">>}

\* lines 142-145 of discover_media_files: the names of the entries that
\* are not excluded, in the order of the listing
NotExcluded(entries) ==
    LET kept == SelectSeq(entries, LAMBDA file_path : ~is_temp_file(file_path))
    IN  [i \in DOMAIN kept |-> kept[i].name]

\* discover_media_files(search_dir)
discover_media_files(entries) == categorize_media_files(NotExcluded(entries))

\* datetime.now().strftime("%Y%m%d_%H%M%S"), at the time of the example of
\* generate_output_filename
Timestamp == <<"2", "0", "2", "4", "0", "3", "1", "5", "_", "1", "4", "3", "0", "4", "5">>

\* generate_output_filename(range_info) of src/src/utils.py, as characters;
\* the directory is the 'My Videos' of its example
OutputFileName(range_info) ==
    IF range_info # <<>>
    THEN <<"M", "y", " ", "V", "i", "d", "e", "o", "s", "-">> \o range_info \o <<"-">> \o Timestamp \o <<".", "m", "p", "4">>
    ELSE <<"M", "y", " ", "V", "i", "d", "e", "o", "s", "-", "M", "E", "R", "G", "E", "D", "-">> \o Timestamp \o <<".", "m", "p", "4">>

\* the names of src/tests/test_file_utils.py, lines 52-63 and 71-77
ExcludedExamples ==
    {<<"t", "e", "m", "p", "_", "0", ".", "m", "p", "4">>, <<"t", "e", "m", "p", "_", "1", "2", "3", ".", "m", "p", "4">>, <<"v", "i", "d", "e", "o", "-", "M", "E", "R", "G", "E", "D", "-", "2", "0", "2", "4", "0", "1", "0", "1", "_", "1", "2", "0", "0", "0", "0", ".", "m", "p", "4">>,
     <<"v", "i", "d", "e", "o", "-", "M", "1", "_", "5", "-", "2", "0", "2", "4", "0", "1", "0", "1", "_", "1", "2", "0", "0", "0", "0", ".", "m", "p", "4">>, <<"v", "i", "d", "e", "o", "-", "R", "3", "-", "2", "0", "2", "4", "0", "1", "0", "1", "_", "1", "2", "0", "0", "0", "0", ".", "m", "p", "4">>,
     <<".", "h", "i", "d", "d", "e", "n">>, <<"~", "b", "a", "c", "k", "u", "p">>, <<"f", "i", "l", "e", "l", "i", "s", "t", ".", "t", "x", "t">>, <<"s", "c", "r", "i", "p", "t", ".", "p", "y">>, <<"t", "e", "s", "t", ".", "p", "s", "1">>}
KeptExamples ==
    {<<"v", "i", "d", "e", "o", ".", "m", "p", "4">>, <<"a", "u", "d", "i", "o", ".", "m", "4", "a">>, <<"i", "m", "a", "g", "e", ".", "p", "n", "g">>, <<"n", "o", "r", "m", "a", "l", "_", "f", "i", "l", "e", ".", "m", "o", "v">>,
     <<"i", "n", "t", "e", "r", "v", "i", "e", "w", " ", "-", " ", "p", "e", "r", "s", "o", "n", ".", "m", "p", "4">>}

\* the files a run leaves behind for a selection of a plan of max_files
\* slots: the temp files, the manifest, the output of merging everything
\* and, for a selection that is not empty, the output of merging it
LeftBehind(range_str, max_files) ==
    {<<"t", "e", "m", "p", "_">> \o str(k - 1) \o <<".", "m", "p", "4">> : k \in 1..max_files}
    \cup {<<"f", "i", "l", "e", "l", "i", "s", "t", ".", "t", "x", "t">>, OutputFileName(<<>>)}
    \cup (IF parse_range(range_str, max_files) = <<>> THEN {}
          ELSE {OutputFileName(format_range_indicator(range_str, "M", max_files))})

\* a later run's stage 2 on a directory that holds the file: whether
\* is_temp_file excludes it, and the plan made of the directory
Rediscover(name) ==
    /\ last.op = "start"
    /\ \E c \in {discover_media_files(<<[name |-> name, is_file |-> TRUE]>>)} :
          last' = [op |-> "rediscover", slot |-> 0, good |-> FALSE,
                   name |-> name,
                   excluded |-> is_temp_file([name |-> name, is_file |-> TRUE]),
                   plan |-> PlanOfLists(c, NoIntroPic)]
    /\ UNCHANGED <<use_cache, now, src, art, sidecar, dir, call>>

NextOutputs ==
    \E name \in LeftBehind(call.range_str, call.max_files) : Rediscover(name)

SpecOutputs == InitRange /\ [][NextOutputs]_vars

\* ------------------------------------------------------ confirmation prompt
\* src/media2vid.py: get_user_action.  call holds the position of the main
\* thread (pc), input_result[0], whether an input thread waits in input(),
\* paused and action; now is int(elapsed), the whole seconds since
\* start_time.  The loops sleep 0.1 s a turn, so any number of turns fits
\* into a second.

\* seconds the clock of the prompt is followed for
MaxSeconds == 22

timeout_seconds == 20

\* line 756
remaining(elapsed) == Max(0, timeout_seconds - elapsed)

\* the lines typed, and the end of the input (EOFError, KeyboardInterrupt)
EndOfInput == "<EOF>"
Typed == {"y", "Y", "", " ", "p", "r ", "M", "c", "O", "n", "x", "yes", EndOfInput}

\* get_input(): input().strip().upper(), "N" at the end of the input
get_input(typed) ==
    CASE typed = EndOfInput -> "N"
      [] typed = "y" -> "Y"
      [] typed = " " -> ""
      [] typed = "p" -> "P"
      [] typed = "r " -> "R"
      [] typed = "c" -> "C"
      [] typed = "n" -> "N"
      [] typed = "x" -> "X"
      [] typed = "yes" -> "YES"
      [] OTHER -> typed

\* a countdown in which any key that is not known continues
countdown_response_any_key(response) ==
    IF response = "P" THEN [to |-> "pause", action |-> None]
    ELSE IF response \in {"R", "M", "C", "O"} THEN [to |-> "break", action |-> response]
    ELSE IF response = "N" THEN [to |-> "exit", action |-> None]
    ELSE [to |-> "break", action |-> "Y"]

\* lines 772-799: what the countdown loop does with a response
countdown_response(response) ==
    IF response \in {"Y", ""} THEN [to |-> "break", action |-> "Y"]
    ELSE IF response = "P" THEN [to |-> "pause", action |-> None]
    ELSE IF response \in {"R", "M", "C", "O"} THEN [to |-> "break", action |-> response]
    ELSE IF response = "N" THEN [to |-> "exit", action |-> None]
    ELSE [to |-> "loop", action |-> None]

\* lines 815-841: what the loop of the paused state does with a response
paused_response(response) ==
    IF response \in {"Y", ""} THEN [to |-> "break", action |-> "Y"]
    ELSE IF response \in {"R", "M", "C", "O"} THEN [to |-> "break", action |-> response]
    ELSE IF response = "N" THEN [to |-> "exit", action |-> None]
    ELSE [to |-> "loop", action |-> None]

\* the state of the prompt; keyed: a response the loops act on has arrived
PromptAt(pc, input_result, alive, paused, action, keyed) ==
    [cmd |-> <<>>, pc |-> pc, input_result |-> input_result, alive |-> alive,
     paused |-> paused, action |-> action, keyed |-> keyed]

InitPrompt ==
    /\ use_cache = TRUE
    /\ now = 0
    /\ src = <<>>
    /\ art = <<>>
    /\ sidecar = <<>>
    /\ dir = [listing |-> <<>>, custom |-> NoCustom]
    /\ call = PromptAt("countdown", None, FALSE, FALSE, None, FALSE)
    /\ last = Idle

\* a second passes
Second ==
    /\ call.pc \in {"countdown", "check", "paused", "wait"}
    /\ now < MaxSeconds
    /\ now' = now + 1
    /\ UNCHANGED <<use_cache, src, art, sidecar, dir, call, last>>

\* the input thread returns from input() and ends
KeyArrives(typed) ==
    /\ call.pc \in {"countdown", "check", "wait"}
    /\ call.alive
    /\ call' = [call EXCEPT !.input_result = get_input(typed),
                            !.alive = FALSE,
                            !.keyed = call.keyed \/
                                      get_input(typed) \in {"Y", "", "P", "R", "M", "C", "O", "N"}]
    /\ last' = [op |-> "key", slot |-> 0, good |-> FALSE, at |-> now,
                paused |-> call.paused]
    /\ UNCHANGED <<use_cache, now, src, art, sidecar, dir>>

\* lines 843-846 for a countdown that ended without a response
TimedOut ==
    [call EXCEPT !.pc = "range", !.action = "Y"]

\* lines 754-767: the head of the countdown loop; when the time is up the
\* loop ends and the action is Y, else an input thread is started unless
\* one waits
CountdownTurn ==
    /\ call.pc = "countdown"
    /\ call' = IF remaining(now) = 0 THEN TimedOut
               ELSE [call EXCEPT !.pc = "check", !.alive = TRUE]
    /\ last' = [op |-> "countdown", slot |-> 0, good |-> remaining(now) = 0,
                at |-> now, response |-> call.input_result]
    /\ UNCHANGED <<use_cache, now, src, art, sidecar, dir>>

\* lines 770-799: after the sleep, the response if there is one
CountdownCheck ==
    /\ call.pc = "check"
    /\ \E r \in {IF call.input_result = None
                 THEN [to |-> "loop", action |-> None]
                 ELSE countdown_response(call.input_result)} :
          call' = [call EXCEPT
                      !.pc = CASE r.to = "loop" -> "countdown"
                               [] r.to = "pause" -> "paused"
                               [] r.to = "exit" -> "exited"
                               [] OTHER -> "range",
                      !.paused = r.to = "pause",
                      !.action = r.action]
    /\ last' = [op |-> "check", slot |-> 0, good |-> FALSE, at |-> now,
                response |-> call.input_result]
    /\ UNCHANGED <<use_cache, now, src, art, sidecar, dir>>

\* lines 802-809: the head of the loop of the paused state
PausedTurn ==
    /\ call.pc = "paused"
    /\ call' = [call EXCEPT !.pc = "wait", !.input_result = None, !.alive = TRUE]
    /\ last' = [op |-> "paused", slot |-> 0, good |-> FALSE, at |-> now]
    /\ UNCHANGED <<use_cache, now, src, art, sidecar, dir>>

\* lines 812-841: the response waited for
PausedResponse ==
    /\ call.pc = "wait"
    /\ call.input_result # None
    /\ \E r \in {paused_response(call.input_result)} :
          call' = [call EXCEPT
                      !.pc = CASE r.to = "loop" -> "paused"
                               [] r.to = "exit" -> "exited"
                               [] OTHER -> "range",
                      !.paused = r.to # "break" \/ r.action # "Y",
                      !.action = r.action]
    /\ last' = [op |-> "response", slot |-> 0, good |-> FALSE, at |-> now,
                response |-> call.input_result]
    /\ UNCHANGED <<use_cache, now, src, art, sidecar, dir>>

\* lines 848-874: the range entered for R and M, parsed to a selection; the
\* program exits when it is empty
EnterRange ==
    /\ call.pc = "range"
    /\ \E selected_indices \in
            IF call.action \in {"R", "M"} THEN Selections \cup {<<>>} ELSE {<<>>} :
          /\ call' = [call EXCEPT
                         !.pc = IF call.action \in {"R", "M"} /\ selected_indices = <<>>
                                THEN "exited" ELSE "returned"]
          /\ last' = [op |-> "get_user_action", slot |-> 0,
                      good |-> ~(call.action \in {"R", "M"} /\ selected_indices = <<>>),
                      action |-> call.action,
                      selected_indices |-> selected_indices,
                      at |-> now, timed_out |-> last.op = "countdown"]
    /\ UNCHANGED <<use_cache, now, src, art, sidecar, dir>>

NextPrompt ==
    \/ Second
    \/ \E typed \in Typed : KeyArrives(typed)
    \/ CountdownTurn
    \/ CountdownCheck
    \/ PausedTurn
    \/ PausedResponse
    \/ EnterRange

SpecPrompt == InitPrompt /\ [][NextPrompt]_vars

\* the main thread runs, and the clock does
SpecPromptFair ==
    /\ SpecPrompt
    /\ WF_vars(Second)
    /\ WF_vars(CountdownTurn)
    /\ WF_vars(CountdownCheck)

\* ------------------------------------------------------------ input threads
\* The prompts that read the keyboard through a daemon thread: the
\* confirmation prompt of get_user_action and the cleanup prompt of
\* get_user_input_with_timeout_cleanup in media2vid.py, and the three calls
\* of the cleanup prompt in test_input_fix.py. A thread blocked on the
\* standard input is a listener; it ends when it has read a line. Which of
\* several blocked listeners reads the next line is left to the interpreter
\* and the operating system, so it is a choice. When the time of a prompt
\* is up is a choice too.

Programs == {"media2vid", "test_input_fix"}

\* range(3) in main() of test_input_fix.py
TestCalls == 3

PromptNumbers == 1 .. TestCalls

\* the lines the user types
Lines == Typed \ {EndOfInput}

\* get_input() of the cleanup prompt: input().strip().lower()
cleanup_get_input(typed) ==
    CASE typed = "Y" -> "y"
      [] typed = " " -> ""
      [] typed = "r " -> "r"
      [] typed = "M" -> "m"
      [] typed = "O" -> "o"
      [] OTHER -> typed

\* the prompt whose thread runs get_input() of get_user_action
IsConfirmation(program, prompt) == program = "media2vid" /\ prompt = 1

\* what a listener of a prompt stores in the cell of its prompt
ReadBy(program, prompt, typed) ==
    IF IsConfirmation(program, prompt) THEN get_input(typed)
    ELSE cleanup_get_input(typed)

\* prompt: the number of the prompt shown last; listeners: the prompts of
\* the threads blocked on the standard input, oldest first; cells: the
\* input_result of each prompt
InputAt(program, pc, prompt, listeners, cells, action) ==
    [cmd |-> <<>>, program |-> program, pc |-> pc, prompt |-> prompt,
     listeners |-> listeners, cells |-> cells, action |-> action]

Alive(prompt) == \E i \in DOMAIN call.listeners : call.listeners[i] = prompt

Started(listeners, prompt) == Append(listeners, prompt)

InitInput ==
    /\ use_cache = TRUE
    /\ now = 0
    /\ src = <<>>
    /\ art = <<>>
    /\ sidecar = <<>>
    /\ dir = [listing |-> <<>>, custom |-> NoCustom]
    /\ \E program \in Programs :
          call = InputAt(program,
                         IF program = "media2vid" THEN "countdown" ELSE "call",
                         IF program = "media2vid" THEN 1 ELSE 0,
                         <<>>, [p \in PromptNumbers |-> None], None)
    /\ last = Idle

\* a blocked thread returns from input() or readline() with the line typed
\* while a prompt is shown, stores it in its cell and ends
LineTyped(typed) ==
    /\ call.pc \in {"countdown", "check", "wait", "cleanup"}
    /\ \E i \in DOMAIN call.listeners :
          /\ call' = [call EXCEPT
                         !.listeners = SubSeq(call.listeners, 1, i - 1) \o
                                       SubSeq(call.listeners, i + 1, Len(call.listeners)),
                         !.cells[call.listeners[i]] =
                             ReadBy(call.program, call.listeners[i], typed)]
          /\ last' = [op |-> "line", slot |-> 0,
                      good |-> call.listeners[i] = call.prompt,
                      shown |-> call.prompt, delivered_to |-> call.listeners[i],
                      blocked |-> Len(call.listeners)]
    /\ UNCHANGED <<use_cache, now, src, art, sidecar, dir>>

\* lines 754-767 of media2vid.py: the head of the countdown loop; when the
\* time is up the loop ends with the thread left as it is and the action is
\* Y, else a thread is started unless one is alive
InputCountdownTurn ==
    /\ call.pc = "countdown"
    /\ \E time_up \in BOOLEAN :
          /\ call' = IF time_up
                     THEN [call EXCEPT !.pc = "produce", !.action = "Y"]
                     ELSE [call EXCEPT
                              !.pc = "check",
                              !.listeners = IF Alive(call.prompt) THEN call.listeners
                                            ELSE Started(call.listeners, call.prompt)]
          /\ last' = [op |-> "countdown", slot |-> 0, good |-> time_up]
    /\ UNCHANGED <<use_cache, now, src, art, sidecar, dir>>

\* where get_user_action goes with the action chosen: the range is read
\* for R and M (lines 848-874), C and O end the program after their
\* operation
AfterAction(action) ==
    IF action \in {"R", "M"} THEN "range"
    ELSE IF action \in {"C", "O"} THEN "exited"
    ELSE "produce"

\* lines 770-799: after the sleep, the response if there is one
InputCountdownCheck ==
    /\ call.pc = "check"
    /\ \E r \in {IF call.cells[call.prompt] = None
                 THEN [to |-> "loop", action |-> None]
                 ELSE countdown_response(call.cells[call.prompt])} :
          call' = [call EXCEPT
                      !.pc = CASE r.to = "loop" -> "countdown"
                               [] r.to = "pause" -> "paused"
                               [] r.to = "exit" -> "exited"
                               [] OTHER -> AfterAction(r.action),
                      !.action = r.action]
    /\ last' = [op |-> "check", slot |-> 0, good |-> FALSE]
    /\ UNCHANGED <<use_cache, now, src, art, sidecar, dir>>

\* lines 802-809: the head of the loop of the paused state resets the cell
\* and starts a thread
InputPausedTurn ==
    /\ call.pc = "paused"
    /\ call' = [call EXCEPT !.pc = "wait",
                            !.cells[call.prompt] = None,
                            !.listeners = Started(call.listeners, call.prompt)]
    /\ last' = [op |-> "paused", slot |-> 0, good |-> FALSE]
    /\ UNCHANGED <<use_cache, now, src, art, sidecar, dir>>

\* lines 812-841: the response waited for
InputPausedResponse ==
    /\ call.pc = "wait"
    /\ call.cells[call.prompt] # None
    /\ \E r \in {paused_response(call.cells[call.prompt])} :
          call' = [call EXCEPT
                      !.pc = CASE r.to = "loop" -> "paused"
                               [] r.to = "exit" -> "exited"
                               [] OTHER -> AfterAction(r.action),
                      !.action = r.action]
    /\ last' = [op |-> "response", slot |-> 0, good |-> FALSE]
    /\ UNCHANGED <<use_cache, now, src, art, sidecar, dir>>

\* lines 848-874: the main thread reads the range itself; the program
\* exits on an empty selection, and after the re-rendering of R
InputEnterRange ==
    /\ call.pc = "range"
    /\ \E empty \in BOOLEAN :
          /\ call' = [call EXCEPT
                         !.pc = IF empty \/ call.action = "R" THEN "exited"
                                ELSE "produce"]
          /\ last' = [op |-> "get_user_action", slot |-> 0, good |-> ~empty]
    /\ UNCHANGED <<use_cache, now, src, art, sidecar, dir>>

\* lines 1143-1188 of media2vid.py: production and the final output; the
\* cleanup prompt is offered when the final output was created
InputProduce ==
    /\ call.pc = "produce"
    /\ \E created \in BOOLEAN :
          /\ call' = [call EXCEPT !.pc = IF created THEN "call" ELSE "exited"]
          /\ last' = [op |-> "create_final_output", slot |-> 0, good |-> created]
    /\ UNCHANGED <<use_cache, now, src, art, sidecar, dir>>

\* lines 1936-1951 of media2vid.py, lines 25-49 of test_input_fix.py: a
\* call of the cleanup prompt has a cell of its own and starts a thread
CleanupCall ==
    /\ call.pc = "call"
    /\ call.prompt < TestCalls
    /\ call' = [call EXCEPT !.pc = "cleanup",
                            !.prompt = call.prompt + 1,
                            !.cells[call.prompt + 1] = None,
                            !.listeners = Started(call.listeners, call.prompt + 1)]
    /\ last' = [op |-> "cleanup_call", slot |-> 0, good |-> FALSE]
    /\ UNCHANGED <<use_cache, now, src, art, sidecar, dir>>

\* lines 1953-1981 of media2vid.py, lines 51-61 of test_input_fix.py: the
\* call returns with the response, or when its five seconds are over with
\* the thread left as it is; main() of test_input_fix.py calls again
CleanupReturn ==
    /\ call.pc = "cleanup"
    /\ \E time_up \in BOOLEAN :
          /\ call.cells[call.prompt] # None \/ time_up
          /\ call' = [call EXCEPT
                         !.pc = IF call.program = "test_input_fix" /\
                                   call.prompt < TestCalls
                                THEN "call" ELSE "exited"]
          /\ last' = [op |-> "cleanup_return", slot |-> 0,
                      good |-> call.cells[call.prompt] \in {"y", "yes"},
                      timed_out |-> call.cells[call.prompt] = None]
    /\ UNCHANGED <<use_cache, now, src, art, sidecar, dir>>

NextInput ==
    \/ \E typed \in Lines : LineTyped(typed)
    \/ InputCountdownTurn
    \/ InputCountdownCheck
    \/ InputPausedTurn
    \/ InputPausedResponse
    \/ InputEnterRange
    \/ InputProduce
    \/ CleanupCall
    \/ CleanupReturn

SpecInput == InitInput /\ [][NextInput]_vars

\* ------------------------------------------------------- claims C11 - C14

\* a list of indices in strictly ascending order, all of them in lo..hi
AscendingWithin(list, lo, hi) ==
    /\ \A i \in DOMAIN list : list[i] \in lo..hi
    /\ \A i, j \in DOMAIN list : i < j => list[i] < list[j]

\* C11 (as stated): for every range expression and every max_files >= 0,
\* parse_range returns a strictly ascending list without duplicates whose
\* elements all lie in 1..max_files.
C11_SelectionInRange ==
    last.op = "parse_range" =>
        AscendingWithin(last.result, 1, call.max_files)

\* C11, the case that holds: the same for every max_files >= 1.
C11_SelectionInRangeOfNonEmptyPlan ==
    (last.op = "parse_range" /\ call.max_files >= 1) =>
        AscendingWithin(last.result, 1, call.max_files)

\* The reference grammar of the claim.  The terms of an expression are its
\* comma-separated pieces, blanks around them dropped, empty pieces skipped.
Terms(range_str) == NonEmpty(StrippedParts(split(strip(range_str), ",")))

IsInteger(t) == int(t).ok

\* "integer" for a bare integer, "closed" for A-B, "open" for A-,
\* "malformed" for anything else
KindOfRange(a, b) ==
    IF ~IsInteger(a) THEN "malformed"
    ELSE IF strip(b) = <<>> THEN "open"
    ELSE IF IsInteger(b) THEN "closed" ELSE "malformed"

TermKind(t) ==
    IF Positions(t, "-") = {}
    THEN IF IsInteger(t) THEN "integer" ELSE "malformed"
    ELSE KindOfRange(SplitOnce(t, "-")[1], SplitOnce(t, "-")[2])

TermA(t) == int(SplitOnce(t, "-")[1]).value
TermB(t) == int(SplitOnce(t, "-")[2]).value

Clamp(x, n) == Max(1, Min(n, x))

\* what a term contributes: the integer clamped; the interval, swapped
\* when A > B, cut to 1..n; A..n
Contribution(t, n) ==
    CASE TermKind(t) = "integer" -> {Clamp(int(t).value, n)}
      [] TermKind(t) = "closed" ->
            {i \in 1..n : Min(TermA(t), TermB(t)) <= i
                          /\ i <= Max(TermA(t), TermB(t))}
      [] TermKind(t) = "open" -> {i \in 1..n : TermA(t) <= i}
      [] OTHER -> {}

\* the same with "clamping" read as moving both endpoints into 1..n
ContributionClampedEnds(t, n) ==
    CASE TermKind(t) = "integer" -> {Clamp(int(t).value, n)}
      [] TermKind(t) = "closed" ->
            Clamp(Min(TermA(t), TermB(t)), n)
                .. Clamp(Max(TermA(t), TermB(t)), n)
      [] TermKind(t) = "open" -> Clamp(TermA(t), n) .. n
      [] OTHER -> {}

Reference(range_str, n) ==
    IF strip(range_str) = <<>> THEN 1..n
    ELSE UNION {Contribution(Terms(range_str)[i], n) :
                    i \in DOMAIN Terms(range_str)}

ReferenceClampedEnds(range_str, n) ==
    IF strip(range_str) = <<>> THEN 1..n
    ELSE UNION {ContributionClampedEnds(Terms(range_str)[i], n) :
                    i \in DOMAIN Terms(range_str)}

\* the list is the sorted list of the set
SortedListOf(list, S) ==
    /\ {list[i] : i \in DOMAIN list} = S
    /\ \A i, j \in DOMAIN list : i < j => list[i] < list[j]

\* the open-ended terms of the expression that start beyond max_files
OpenBeyond(range_str, n) ==
    {i \in DOMAIN Terms(range_str) :
        /\ TermKind(Terms(range_str)[i]) = "open"
        /\ TermA(Terms(range_str)[i]) > n}

\* the two examples of the claim
C12_Examples ==
    /\ parse_range(<<"1", ",", "3", "-", "5", ",", "8", "-">>, 12)
           = <<1, 3, 4, 5, 8, 9, 10, 11, 12>>
    /\ parse_range(<<"a", "b", "c">>, 5) = <<>>

\* C12 (as stated): for max_files >= 1, parse_range returns the sorted
\* union of the contributions of the terms: all of 1..max_files for a blank
\* expression, a bare integer clamped, A-B as the interval (swapped when
\* A > B) cut to 1..max_files, A- as A..max_files, nothing for a malformed
\* term, the other terms keeping their contributions; and the two examples.
C12_ReferenceGrammar ==
    /\ C12_Examples
    /\ (last.op = "parse_range" /\ call.max_files >= 1) =>
          SortedListOf(last.result, Reference(call.range_str, call.max_files))

\* C12, with every endpoint moved into 1..max_files before the interval is
\* taken
C12_ReferenceGrammarClampedEnds ==
    (last.op = "parse_range" /\ call.max_files >= 1) =>
        SortedListOf(last.result,
                     ReferenceClampedEnds(call.range_str, call.max_files))

\* C12, the case that holds: the same as stated for the expressions
\* without an open-ended term that starts beyond max_files.
C12_ReferenceGrammarOpenWithinPlan ==
    /\ C12_Examples
    /\ (/\ last.op = "parse_range"
        /\ call.max_files >= 1
        /\ OpenBeyond(call.range_str, call.max_files) = {}) =>
          SortedListOf(last.result, Reference(call.range_str, call.max_files))

\* the comma-separated pieces of a tag behind its operation letter
TagPieces(tag) == IF Tail(tag) = <<>> THEN <<>> ELSE split(Tail(tag), ",")

\* the text the claim gives for a term: a bare integer as itself, A-B as
\* A_B, A- as A_<max_files>
Rendered(t, n) ==
    CASE TermKind(t) = "closed" ->
            strip(SplitOnce(t, "-")[1]) \o <<"_">> \o strip(SplitOnce(t, "-")[2])
      [] TermKind(t) = "open" ->
            strip(SplitOnce(t, "-")[1]) \o <<"_">> \o str(n)
      [] OTHER -> t

RenderedAsClaimed(tag, terms, n) ==
    /\ Len(TagPieces(tag)) = Len(terms)
    /\ \A i \in DOMAIN terms :
          TermKind(terms[i]) # "malformed" =>
              TagPieces(tag)[i] = Rendered(terms[i], n)

\* the example of the claim
C13_Example ==
    format_range_indicator(<<"1", ",", "3", "-", "5", ",", "8", "-">>, "M", 12)
        = <<"M", "1", ",", "3", "_", "5", ",", "8", "_", "1", "2">>

\* C13: format_range_indicator returns the operation letter followed by
\* "0" for an empty or blank expression; otherwise the operation letter
\* followed by one comma-separated piece for each term parse_range sees, in
\* their order, a bare integer as itself, A-B as A_B and A- as
\* A_<max_files>; and the example.
C13_RenderGrammar ==
    /\ C13_Example
    /\ last.op = "format_range_indicator" =>
          /\ last.result[1] = last.operation
          /\ IF strip(call.range_str) = <<>>
             THEN last.result = <<last.operation, "0">>
             ELSE RenderedAsClaimed(last.result, Terms(call.range_str),
                                    call.max_files)

\* C13: an expression of three terms, one of each kind, was rendered
C13_Witness ==
    /\ last.op = "format_range_indicator"
    /\ Len(Terms(call.range_str)) = 3
    /\ {TermKind(Terms(call.range_str)[i]) : i \in 1..3}
           = {"integer", "closed", "open"}
    /\ Len(TagPieces(last.result)) = 3

\* the expression is a single range term, A-B or A-
SingleRangeTerm(range_str) ==
    /\ Len(Terms(range_str)) = 1
    /\ TermKind(Terms(range_str)[1]) \in {"closed", "open"}

\* the two numbers of a tag <op>A_B
TagBounds(tag) ==
    <<int(SplitOnce(Tail(tag), "_")[1]).value,
      int(SplitOnce(Tail(tag), "_")[2]).value>>

\* the tag names the least and the greatest index of the selection
TagSummarises(tag, selection) ==
    /\ selection # <<>>
    /\ TagBounds(tag) = <<selection[1], selection[Len(selection)]>>

\* the upper end the single range term asks for
TermUpper(t, n) == IF TermKind(t) = "open" THEN n ELSE TermB(t)

\* C14 (as stated): for a single range term and max_files >= 1, the two
\* numbers of the tag format_range_indicator returns are the least and the
\* greatest index parse_range returns, in that order.
C14_TagSummarisesSelection ==
    (/\ last.op = "format_range_indicator"
     /\ call.max_files >= 1
     /\ SingleRangeTerm(call.range_str)) =>
        TagSummarises(last.result,
                      parse_range(call.range_str, call.max_files))

\* C14, the case that holds: the same for a term whose ends are in order
\* and inside 1..max_files.
C14_TagSummarisesOrderedTermWithinPlan ==
    (/\ last.op = "format_range_indicator"
     /\ call.max_files >= 1
     /\ SingleRangeTerm(call.range_str)
     /\ 1 <= TermA(Terms(call.range_str)[1])
     /\ TermA(Terms(call.range_str)[1])
            <= TermUpper(Terms(call.range_str)[1], call.max_files)
     /\ TermUpper(Terms(call.range_str)[1], call.max_files)
            <= call.max_files) =>
        TagSummarises(last.result,
                      parse_range(call.range_str, call.max_files))

\* ------------------------------------------------------- claims C15 - C19

\* the slots filelist.txt names, line by line
SlotsListed(filelist) == [i \in DOMAIN filelist |-> SlotOfLine(filelist[i])]

\* the selected indices that are slots of the plan
SelectedSlots(selected_indices) ==
    {k \in DOMAIN src : Contains(selected_indices, k)}

\* C15: whatever the order in which the selected indices were entered, the
\* filelist.txt a merge writes names the temp files in strictly ascending
\* order of their plan index.
C15_ManifestAscending ==
    last.op = "merge" =>
        \A i, j \in DOMAIN last.filelist :
            i < j => SlotsListed(last.filelist)[i] < SlotsListed(last.filelist)[j]

\* C15: the indices were entered as 5,1,3 and the list names slot 1, then
\* slot 3
C15_Witness ==
    /\ last.op = "merge"
    /\ last.action = "M"
    /\ last.selected_indices = <<5, 1, 3>>
    /\ SlotsListed(last.filelist) = <<1, 3>>

\* the slots the merge is about: the selected slots of the plan in the M
\* flow, every slot of the plan in the Y flow
MergeSet(action, selected_indices) ==
    IF action = "M" THEN SelectedSlots(selected_indices) ELSE DOMAIN src

\* the list has one line for every slot of the set and no other line
ListsExactly(filelist, slots) ==
    /\ {SlotOfLine(filelist[i]) : i \in DOMAIN filelist} = slots
    /\ Len(filelist) = Cardinality(slots)

\* C16 (as stated): the filelist.txt a merge writes has exactly one line
\* for every slot of the merge set and none for any other slot; in the M
\* flow the merge set is the selected slots of the plan, also when no
\* selected index is a slot of the plan, in the Y flow it is the whole plan.
C16_ManifestMembership ==
    last.op = "merge" =>
        ListsExactly(last.filelist,
                     MergeSet(last.action, last.selected_indices))

\* C16, the case that holds: the same for the Y flow and for the M flow
\* with at least one selected index that is a slot of the plan.
C16_ManifestMembershipOfMatchingSelection ==
    (/\ last.op = "merge"
     /\ MergeSet(last.action, last.selected_indices) # {}) =>
        ListsExactly(last.filelist,
                     MergeSet(last.action, last.selected_indices))

\* the producer was run for the slots of the set, once each
ProducedExactly(produced, slots) ==
    /\ {produced[i] : i \in DOMAIN produced} = slots
    /\ Len(produced) = Cardinality(slots)

\* C17: in the M flow the producer is run for the selected slots whose
\* temp file did not exist when the run started, and for no other slot;
\* create_final_output is reached only when the producer has returned True
\* for every one of them, and every line of filelist.txt then names a temp
\* file that exists.
C17_MergeProducesMissing ==
    /\ (call.pc = "process" /\ call.action = "M") =>
          /\ {call.produced[i] : i \in DOMAIN call.produced} \subseteq call.missing
          /\ \A i \in DOMAIN call.todo : call.todo[i].index \in call.missing
    /\ (last.op = "merge" /\ last.action = "M") =>
          /\ ProducedExactly(last.produced, last.missing)
          /\ \A i \in DOMAIN last.filelist :
                /\ SlotOfLine(last.filelist[i]) \in DOMAIN last.temps_before
                /\ last.temps_before[SlotOfLine(last.filelist[i])].exists

\* C17: a merge of a selection of which one temp file existed and another
\* had to be produced
C17_Witness ==
    /\ last.op = "merge"
    /\ last.action = "M"
    /\ last.missing # {}
    /\ last.missing # SelectedSlots(last.selected_indices)
    /\ ProducedExactly(last.produced, last.missing)
    /\ Len(last.filelist) = Cardinality(SelectedSlots(last.selected_indices))

\* C18: create_final_output starts the encoder in stream-copy mode first;
\* it starts it a second time, re-encoding, exactly when the first run
\* failed, and never a third time; it returns False exactly when both runs
\* failed; and after a False the temp files and their sidecars are what
\* they were before.
C18_JoinFallback ==
    last.op = "merge" =>
        /\ last.joins = IF last.encoder_oks[1] THEN <<"copy">>
                        ELSE <<"copy", "reencode">>
        /\ last.ret = (last.encoder_oks[1] \/ last.encoder_oks[2])
        /\ ~last.ret => (art = last.temps_before /\ sidecar = last.caches_before)

\* C18: both encoder runs failed: the merge failed after two runs and the
\* temp files of the plan are still there
C18_Witness ==
    /\ last.op = "merge"
    /\ last.joinable
    /\ last.encoder_oks = <<FALSE, FALSE>>
    /\ last.joins = <<"copy", "reencode">>
    /\ ~last.ret
    /\ \A k \in DOMAIN src : art[k].exists /\ sidecar[k].kind = "record"

\* the merge left alone every final output that existed, and the path it
\* chose was the path of none of them
KeptFinalOutputs(outputs_before, path, outputs) ==
    /\ \A o \in outputs_before : o \in outputs
    /\ ~PathExists(outputs_before, path)

\* C19 (as stated): a merge, whether its join succeeds or fails, leaves
\* every final output that existed before it as it was, its own path being
\* different from theirs; also when it starts in the same second as the
\* merge that wrote one of them.
C19_FinalOutputNeverOverwritten ==
    last.op = "merge" =>
        KeptFinalOutputs(last.outputs_before, last.path, dir.outputs)

\* C19, the case that holds: the same for a merge before which the clock
\* advanced after every earlier run in the directory.
C19_FinalOutputKeptAcrossSeconds ==
    (last.op = "merge" /\ last.clock = last.run - 1) =>
        KeptFinalOutputs(last.outputs_before, last.path, dir.outputs)

\* ---------------------------------------------------------------- claim C20

\* the slots of a plan with a role
SlotsOfType(plan, file_type) ==
    {i \in DOMAIN plan : plan[i].file_type = file_type}

\* the slots of the role are in ascending order of their sort key
AscendingKeys(plan, file_type) ==
    \A i, j \in SlotsOfType(plan, file_type) :
        i < j => ~StrLess(extract_person_name(plan[j].filename),
                          extract_person_name(plan[i].filename))

\* the example of the claim
C20_Example ==
    PlanOf(ExampleDirectory, NoIntroPic) =
        <<[index |-> 1, filename |-> <<"i", "n", "t", "r", "o", ".", "p", "n", "g">>,
           file_type |-> "INTRO"],
          [index |-> 2, filename |-> <<"A", " ", "-", " ", "A", "m", "y", ".", "m", "o", "v">>,
           file_type |-> "VIDEO"],
          [index |-> 3, filename |-> <<"B", " ", "-", " ", "Z", "e", "d", ".", "m", "p", "4">>,
           file_type |-> "VIDEO"],
          [index |-> 4, filename |-> <<"C", " ", "-", " ", "M", "i", "d", ".", "m", "p", "3">>,
           file_type |-> "AUDIO"]>>

\* C20: the plan made of any directory has the indices 1..n in order, at
\* most one INTRO slot, which then has index 1, every VIDEO slot before
\* every AUDIO slot, and the VIDEO slots and the AUDIO slots each in
\* ascending order of extract_person_name; and the example.
C20_PlanInvariant ==
    /\ C20_Example
    /\ last.op = "plan" =>
          /\ \A i \in DOMAIN last.result : last.result[i].index = i
          /\ \A i \in DOMAIN last.result :
                last.result[i].file_type \in {"INTRO", "VIDEO", "AUDIO"}
          /\ SlotsOfType(last.result, "INTRO") \subseteq {1}
          /\ \A i \in SlotsOfType(last.result, "VIDEO") :
                \A j \in SlotsOfType(last.result, "AUDIO") : i < j
          /\ AscendingKeys(last.result, "VIDEO")
          /\ AscendingKeys(last.result, "AUDIO")

\* C20: a plan with an INTRO slot and two VIDEO slots that the directory
\* listed in the other order
C20_Witness ==
    /\ last.op = "plan"
    /\ SlotsOfType(last.result, "INTRO") = {1}
    /\ \E i, j \in SlotsOfType(last.result, "VIDEO") :
          /\ i < j
          /\ StrLess(extract_person_name(last.result[i].filename),
                     extract_person_name(last.result[j].filename))
          /\ \E a, b \in DOMAIN call.all_files :
                /\ a < b
                /\ call.all_files[a] = last.result[j].filename
                /\ call.all_files[b] = last.result[i].filename

\* ---------------------------------------------------------------- claim C21

\* the file names of the INTRO slots of a plan
IntroOf(plan) ==
    [i \in 1..Cardinality(SlotsOfType(plan, "INTRO")) |-> plan[i].filename]

\* the PNG files of a listing whose base name is intro_pic in any case
ReservedPngs(all_files) ==
    {name \in {all_files[i] : i \in DOMAIN all_files} :
        /\ Category(name) = "intro"
        /\ lower(stem(name)) = <<"i", "n", "t", "r", "o", "_", "p", "i", "c">>}

\* the intro slots are the ones the rule of the claim gives for the PNG
\* files of the listing and the override
IntroAsClaimed(intro, all_files, override) ==
    LET pngs == OfCategory(all_files, "intro")
    IN  IF override.given /\ override.exists THEN intro = <<override.name>>
        ELSE IF Len(pngs) = 0 THEN intro = <<>>
        ELSE IF Len(pngs) = 1 THEN intro = pngs
        ELSE IF ReservedPngs(all_files) = {} THEN intro = <<>>
        ELSE Len(intro) = 1 /\ intro[1] \in ReservedPngs(all_files)

\* C21 (as stated): in every plan the program makes, the intro slot is the
\* existing override if there is one, else the only PNG, else with several
\* PNGs the one named intro_pic (in any case) and no slot if there is
\* none, else no slot.
C21_IntroSelection ==
    last.op \in {"plan", "plan_main"} =>
        IntroAsClaimed(IntroOf(last.result), call.all_files, call.custom_intro_path)

\* C21 for find_intro_image of src/src/file_utils.py alone: its plans
\* follow the rule.
C21_IntroSelectionOfFindIntroImage ==
    last.op = "plan" =>
        IntroAsClaimed(IntroOf(last.result), call.all_files, call.custom_intro_path)

\* C21: main of src/media2vid.py has planned a directory with two PNG
\* files, none of them named intro_pic, and the plan has an INTRO slot
C21_FirstPngTaken ==
    /\ last.op = "plan_main"
    /\ Len(OfCategory(call.all_files, "intro")) > 1
    /\ ReservedPngs(call.all_files) = {}
    /\ IntroOf(last.result) # <<>>

\* ---------------------------------------------------------------- claim C22

\* the starts of the literal " - " in a file name
DashStarts(filename) ==
    {i \in 1..(Len(filename) - 2) : SubSeq(filename, i, i + 2) = <<" ", "-", " ">>}

\* the final extension dot of a file name: the last dot, if a character
\* follows it; 0 if there is none
ExtensionDot(filename) ==
    LET dots == {d \in DOMAIN filename : filename[d] = "."}
    IN  IF dots = {} \/ Len(filename) \in dots THEN 0 ELSE Greatest(dots)

\* the key the claim states when the " - " at start counts
KeyAfter(filename, start) ==
    IF start + 3 <= ExtensionDot(filename) - 1
    THEN lower(SubSeq(filename, start + 3, ExtensionDot(filename) - 1))
    ELSE lower(filename)

IsMedia(filename) == Category(filename) \in {"video", "audio"}

\* the examples of the claim and of the tests
C22_Examples ==
    /\ extract_person_name(<<"I", "n", "t", "e", "r", "v", "i", "e", "w", " ", "-", " ", "J", "o", "h", "n", " ", "D", "o", "e", ".", "m", "p", "4">>) = <<"j", "o", "h", "n", " ", "d", "o", "e">>
    /\ extract_person_name(<<"T", "i", "t", "l", "e", " ", "-", " ", ".", "m", "p", "4">>) = <<"t", "i", "t", "l", "e", " ", "-", " ", ".", "m", "p", "4">>
    /\ extract_person_name(<<"Q", "u", "e", "s", "t", "i", "o", "n", " ", "-", " ", "J", "a", "n", "e", " ", "S", "m", "i", "t", "h", ".", "m", "o", "v">>) = <<"j", "a", "n", "e", " ", "s", "m", "i", "t", "h">>
    /\ extract_person_name(<<"A", "u", "d", "i", "o", " ", "-", " ", "B", "o", "b", " ", "W", "i", "l", "s", "o", "n", ".", "m", "4", "a">>) = <<"b", "o", "b", " ", "w", "i", "l", "s", "o", "n">>
    /\ extract_person_name(<<"r", "a", "n", "d", "o", "m", "_", "v", "i", "d", "e", "o", ".", "m", "p", "4">>) = <<"r", "a", "n", "d", "o", "m", "_", "v", "i", "d", "e", "o", ".", "m", "p", "4">>
    /\ extract_person_name(<<"t", "e", "s", "t", ".", "m", "o", "v">>) = <<"t", "e", "s", "t", ".", "m", "o", "v">>
    /\ extract_person_name(<<"n", "o", "-", "d", "a", "s", "h", "-", "h", "e", "r", "e", ".", "m", "p", "4">>) = <<"n", "o", "-", "d", "a", "s", "h", "-", "h", "e", "r", "e", ".", "m", "p", "4">>
    /\ extract_person_name(<<"N", "o", "E", "x", "t", "e", "n", "s", "i", "o", "n", " ", "-", " ", "P", "e", "r", "s", "o", "n">>) = <<"n", "o", "e", "x", "t", "e", "n", "s", "i", "o", "n", " ", "-", " ", "p", "e", "r", "s", "o", "n">>
    /\ extract_person_name(<<"M", "u", "l", "t", "i", "p", "l", "e", " ", "-", " ", "D", "a", "s", "h", "e", "s", " ", "-", " ", "P", "e", "r", "s", "o", "n", " ", "N", "a", "m", "e", ".", "m", "p", "4">>)
          = <<"d", "a", "s", "h", "e", "s", " ", "-", " ", "p", "e", "r", "s", "o", "n", " ", "n", "a", "m", "e">>

\* C22 (as stated): the sort key of a video or audio file name is the
\* lowercased text between the LAST " - " and the final extension dot, and
\* the lowercased file name when it has no " - " or nothing lies between
\* that " - " and the extension.
C22_KeyAfterLastDash ==
    (last.op = "extract_person_name" /\ IsMedia(call.filename)) =>
        last.result =
            IF DashStarts(call.filename) = {} THEN lower(call.filename)
            ELSE KeyAfter(call.filename, Greatest(DashStarts(call.filename)))

\* C22 (amended): the sort key is the lowercased text between the FIRST
\* " - " that has at least one character between it and the final
\* extension dot, and that dot; it is the lowercased file name when there
\* is no such " - "; and the examples hold.
C22_KeyAfterFirstDash ==
    /\ C22_Examples
    /\ last.op = "extract_person_name" =>
          LET starts == {i \in DashStarts(call.filename) :
                            i + 3 <= ExtensionDot(call.filename) - 1}
          IN  last.result =
                  IF starts = {} THEN lower(call.filename)
                  ELSE KeyAfter(call.filename, Least(starts))

\* C22: the key of a video file name with two " - " that both have text
\* behind them has been taken, and holds the second " - "
C22_Witness ==
    /\ last.op = "extract_person_name"
    /\ IsMedia(call.filename)
    /\ Cardinality({i \in DashStarts(call.filename) :
                       i + 3 <= ExtensionDot(call.filename) - 1}) = 2
    /\ DashStarts(last.result) # {}

\* ---------------------------------------------------------------- claim C23

\* a listing with the files at i and i + 1 enumerated the other way round;
\* every order of a directory is reached by such steps
Swapped(all_files, i) ==
    [k \in DOMAIN all_files |->
        IF k = i THEN all_files[i + 1]
        ELSE IF k = i + 1 THEN all_files[i]
        ELSE all_files[k]]

\* the video and audio files of a listing have different sort keys
DistinctKeys(all_files) ==
    \A i, j \in DOMAIN all_files :
        (/\ i # j
         /\ Category(all_files[i]) = Category(all_files[j])
         /\ Category(all_files[i]) \in {"video", "audio"})
        => extract_person_name(all_files[i]) # extract_person_name(all_files[j])

\* C23 (as stated): the plan made of a directory is the plan made of the
\* same directory enumerated in any other order.
C23_PlanIndependentOfListingOrder ==
    last.op = "plan" =>
        \A i \in 1..(Len(call.all_files) - 1) :
            PlanOf(Swapped(call.all_files, i), call.custom_intro_path) = last.result

\* C23 for directories whose video and audio files have different sort
\* keys and that hold at most one PNG named intro_pic: the plan does not
\* depend on the order of the listing.
C23_PlanIndependentOfOrderWithoutTies ==
    (/\ last.op = "plan"
     /\ DistinctKeys(call.all_files)
     /\ Cardinality(ReservedPngs(call.all_files)) <= 1) =>
        \A i \in 1..(Len(call.all_files) - 1) :
            PlanOf(Swapped(call.all_files, i), call.custom_intro_path) = last.result

\* C23: the plan of a directory with two videos of the same sort key, or
\* with two PNGs named intro_pic, differs from the plan of another order
C23_OrderLeaks ==
    /\ last.op = "plan"
    /\ ~DistinctKeys(call.all_files) \/ Cardinality(ReservedPngs(call.all_files)) > 1
    /\ \E i \in 1..(Len(call.all_files) - 1) :
          PlanOf(Swapped(call.all_files, i), call.custom_intro_path) # last.result

\* ---------------------------------------------------------------- claim C24

\* the names the tests expect to be excluded are, the others are not
C24_Examples ==
    /\ \A name \in ExcludedExamples : is_temp_file([name |-> name, is_file |-> TRUE])
    /\ \A name \in KeptExamples : ~is_temp_file([name |-> name, is_file |-> TRUE])
    /\ is_temp_file([name |-> <<"s", "u", "b", "d", "i", "r", "e", "c", "t", "o", "r", "y">>, is_file |-> FALSE])

\* C24 (as stated): every file a run leaves behind (temp file, manifest,
\* merged output with the tag MERGED or any range tag) is excluded by
\* is_temp_file, and the plan of a directory holding it has no slot.
C24_OutputsExcluded ==
    last.op = "rediscover" => last.excluded /\ last.plan = <<>>

\* the expression is one term A, A-B or A- whose numbers are written with
\* digits only
PlainTerm(range_str) ==
    /\ Len(Terms(range_str)) = 1
    /\ LET parts == split(Terms(range_str)[1], "-")
       IN  /\ Len(parts) <= 2
           /\ IsDigits(strip(parts[1]))
           /\ Len(parts) = 2 => strip(parts[2]) = <<>> \/ IsDigits(strip(parts[2]))

\* C24 for the temp files, the manifest, the output tagged MERGED and the
\* outputs of selections written as one term of unsigned numbers: they
\* are excluded; and the names of the tests.
C24_OutputsExcludedForPlainTerm ==
    /\ C24_Examples
    /\ (/\ last.op = "rediscover"
        /\ \/ PlainTerm(call.range_str)
           \/ last.name # OutputFileName(format_range_indicator(call.range_str, "M",
                                                                call.max_files)))
       => last.excluded /\ last.plan = <<>>

\* C24: the output of merging a selection written with a comma is not
\* excluded and is a VIDEO slot of the next plan
C24_OutputBecomesSlot ==
    /\ last.op = "rediscover"
    /\ Positions(last.name, ",") # {}
    /\ ~last.excluded
    /\ last.plan = <<[index |-> 1, filename |-> last.name, file_type |-> "VIDEO"]>>

\* ---------------------------------------------------------------- claim C25

\* the slots a run has to produce before its merge: every slot of the plan
\* for Y, the selected slots without a temp file for M
SlotsToProduce(action, missing) ==
    IF action = "Y" THEN DOMAIN src ELSE missing

\* create_final_output is reached by the actions Y and M only, and then
\* every slot the run had to produce has been produced and has its temp
\* file
C25_MergeAfterSuccess ==
    last.op = "merge" =>
        /\ last.action \in {"Y", "M"}
        /\ \A k \in SlotsToProduce(last.action, last.missing) :
              /\ Contains(last.produced, k)
              /\ last.temps_before[k].exists

\* no step of a run of the action R, its last step included, writes
\* filelist.txt, joins or changes the final outputs
C25_RerenderStops ==
    (call.action = "R" \/ call'.action = "R") =>
        /\ dir' = dir
        /\ last'.op \in {"start_run", "process", "rerendered"}
        /\ last'.op = "rerendered" => call'.pc = "idle"

\* C25: a run of RE_RENDER_RANGE runs the producers of the selected slots
\* and stops without writing a manifest, joining or creating a final
\* output; CONTINUE_ALL and MERGE_RANGE reach create_final_output only
\* after every slot they had to produce succeeded.
C25_SessionFlow == []C25_MergeAfterSuccess /\ [][C25_RerenderStops]_vars

\* C25: a run of R has encoded a slot and stopped, and there is neither a
\* manifest nor a final output
C25_Witness ==
    /\ last.op = "rerendered"
    /\ last.encoded # {}
    /\ call.pc = "idle"
    /\ dir.filelist = <<>>
    /\ dir.outputs = {}

\* ---------------------------------------------------------------- claim C26

\* the responses the prompt knows; P only while the countdown runs
RecognisedKeys == {"Y", "", "R", "M", "C", "O", "N"}

\* the prompt is over without a recognised key only by the timeout: the
\* action is Y, the 20 seconds have passed and it was never paused; and no
\* action is chosen while a loop runs
C26_TimeoutDefault ==
    /\ (call.pc \in {"range", "returned", "exited"} /\ ~call.keyed) =>
          /\ call.pc # "exited"
          /\ call.action = "Y"
          /\ ~call.paused
          /\ now >= timeout_seconds
    /\ call.pc \in {"countdown", "check", "paused", "wait"} => call.action = None
    /\ call.pc \in {"paused", "wait"} => call.paused

\* a response that is not recognised leaves the countdown running with no
\* action chosen, and the paused state is left only at a recognised key
C26_OnlyRecognisedKeysAct ==
    /\ (/\ call.pc = "check"
        /\ call'.pc # "check"
        /\ call.input_result \notin (RecognisedKeys \cup {"P"}))
       => (call'.pc = "countdown" /\ call'.action = None /\ ~call'.paused)
    /\ (call.pc \in {"paused", "wait"} /\ call'.pc \notin {"paused", "wait"})
       => call.input_result \in RecognisedKeys

\* C26: while not paused, a prompt at which no recognised key arrives ends
\* when the 20 seconds are over, with the action Y; a key that is not
\* recognised neither chooses an action nor keeps the countdown from
\* ending; once paused the prompt is left only at a recognised key.
C26_PromptDefault ==
    /\ []C26_TimeoutDefault
    /\ [][C26_OnlyRecognisedKeysAct]_vars
    /\ (call.pc \in {"countdown", "check"}) ~> (call.pc \notin {"countdown", "check"})

\* C26: the prompt has returned Y by the timeout although a key that is
\* not recognised had arrived
C26_Witness ==
    /\ last.op = "get_user_action"
    /\ last.timed_out
    /\ last.action = "Y"
    /\ call.input_result = "X"
    /\ ~call.keyed

\* ---------------------------------------------------------------- claim C27

\* after a producer of a run of the action Y has failed (it returned
\* False, or left no temp file), the run is over with the files still to
\* process dropped, and the slots produced before have their temp file and
\* their sidecar
C27_AbortedAtFirstFailure ==
    (/\ last.op = "process"
     /\ last.action = "Y"
     /\ ~last.good \/ ~art[last.slot].exists)
    => /\ call.pc = "idle"
       /\ call.todo = <<>>
       /\ \A i \in DOMAIN last.produced :
             /\ art[last.produced[i]].exists
             /\ sidecar[last.produced[i]] # NoSidecar

\* the steps of a run of the action Y before its merge leave filelist.txt
\* and the final outputs alone, and a producer changes the temp file and
\* the sidecar of its slot only
C27_NothingMerged ==
    ((call.action = "Y" \/ call'.action = "Y")
     /\ last'.op \in {"start_run", "process"})
    => /\ dir' = dir
       /\ \A k \in DOMAIN src :
             (last'.op = "start_run" \/ k # last'.slot)
             => (art'[k] = art[k] /\ sidecar'[k] = sidecar[k])

\* C27: in the process-everything flow the first producer that fails ends
\* the run: no later slot is produced, no manifest is written, nothing is
\* joined, no final output is created, and the temp files and sidecars of
\* the slots produced before remain.
C27_FailFast == []C27_AbortedAtFirstFailure /\ [][C27_NothingMerged]_vars

\* C27: a run of Y was ended by the failure of a slot after another slot
\* was produced and before a further one, and there is neither a manifest
\* nor a final output
C27_Witness ==
    /\ last.op = "process"
    /\ last.action = "Y"
    /\ ~last.good
    /\ last.invoked > 0
    /\ last.produced # <<>>
    /\ last.todo # <<>>
    /\ call.pc = "idle"
    /\ dir.filelist = <<>>
    /\ dir.outputs = {}

\* ---------------------------------------------------------------- claim C28

\* C28 (as stated): when the producer of a selected slot fails in a run of
\* the action R, the run goes on with the selected slots that remain.
C28_RerenderContinuesAfterFailure ==
    (/\ last.op = "process"
     /\ last.action = "R"
     /\ ~last.good
     /\ last.todo # <<>>)
    => (call.pc = "process" /\ call.todo = last.todo)

\* C28: a run of R was ended by the failure of a slot while selected slots
\* remained
C28_RerenderAborted ==
    /\ last.op = "process"
    /\ last.action = "R"
    /\ ~last.good
    /\ last.todo # <<>>
    /\ call.pc = "idle"

\* ---------------------------------------------------------------- claim C29

\* the slots of the plan in a selection
SelectedSlotsOfPlan(selected_indices) ==
    {k \in DOMAIN src : Contains(selected_indices, k)}

\* a producer of a run of the action R works on a selected slot and
\* invokes the encoder, whatever temp file and sidecar there were
C29_SelectedSlotEncoded ==
    (last.op = "process" /\ last.action = "R") =>
        /\ last.slot \in SelectedSlotsOfPlan(last.selected_indices)
        /\ last.invoked >= 1

\* the steps of a run of the action R leave the temp files and the
\* sidecars of the slots outside the selection as they were
C29_OthersUntouched ==
    (call.action = "R" \/ call'.action = "R") =>
        \A k \in DOMAIN src :
            k \notin SelectedSlotsOfPlan(IF call.action = "R"
                                         THEN call.selected_indices
                                         ELSE call'.selected_indices)
            => (art'[k] = art[k] /\ sidecar'[k] = sidecar[k])

\* C29 (as stated): when a run of the action R with the selection S has
\* ended, the encoder was invoked for every slot of the plan in S, and for
\* no other slot.
C29_RerenderEncodesSelection ==
    /\ C29_SelectedSlotEncoded
    /\ last.op = "rerendered" =>
          last.encoded = SelectedSlotsOfPlan(last.selected_indices)
    /\ (last.op = "process" /\ last.action = "R" /\ call.pc = "idle") =>
          last.todo = <<>>

\* C29 for the runs of R in which no producer fails: the encoder is
\* invoked for every slot of the plan in S, also for those with a valid
\* temp file and sidecar, and for no other slot, and the temp files and
\* sidecars of the other slots are unchanged.
C29_CompletedRerenderEncodesSelection ==
    /\ [](/\ C29_SelectedSlotEncoded
          /\ last.op = "rerendered" =>
                last.encoded = SelectedSlotsOfPlan(last.selected_indices))
    /\ [][C29_OthersUntouched]_vars

\* C29: a run of R has encoded a slot whose temp file and sidecar were
\* valid when the run began
C29_ValidCacheSuperseded ==
    /\ last.op = "process"
    /\ last.action = "R"
    /\ last.invoked >= 1
    /\ last.good
    /\ is_cached_file_valid(use_cache, last.temp_before, src[last.slot].mtime,
                            last.cache_before,
                            FirstInfo(last.slot, src[last.slot], dir)).valid

\* ---------------------------------------------------------------- claim C30

\* C30: after the action C there is no temp file, no sidecar and no
\* manifest, the final outputs are the ones there were and the program has
\* ended; in the run after it every producer invokes the encoder.
C30_ClearCacheTotal ==
    /\ last.op = "clear_cache" =>
          /\ \A k \in DOMAIN src : ~art[k].exists /\ sidecar[k] = NoSidecar
          /\ dir.filelist = <<>>
          /\ dir.outputs = last.outputs_before
          /\ call.pc = "idle"
    /\ (last.op = "process" /\ last.after_clear) => last.invoked >= 1

\* C30: in the run after the action C the encoder was invoked for a slot
\* that had a temp file when the cache was cleared
C30_Witness ==
    /\ last.op = "process"
    /\ last.after_clear
    /\ last.cleared
    /\ last.invoked >= 1

\* ---------------------------------------------------------------- claim C31

\* a producer works on a slot after the slots before it in the plan that
\* the run has to produce, which are done, and before the ones after it
C31_InPlanOrder ==
    last.op = "process" =>
        /\ \A i \in DOMAIN last.produced : last.produced[i] < last.slot
        /\ \A j \in DOMAIN last.todo : last.slot < last.todo[j].index
        /\ call.pc = "process" =>
              /\ call.produced = Append(last.produced, last.slot)
              /\ call.todo = last.todo

\* main takes the files to process one by one from the head of the list,
\* and create_final_output is called when none is left and every one of
\* them was produced
C31_OneAtATime ==
    /\ (last'.op = "process" /\ call.pc = "process") =>
          /\ call.todo # <<>>
          /\ last'.slot = Head(call.todo).index
          /\ \A k \in DOMAIN src :
                k # last'.slot => (art'[k] = art[k] /\ sidecar'[k] = sidecar[k])
    /\ (last'.op = "merge" /\ call.pc = "process") =>
          /\ call.todo = <<>>
          /\ Len(call.produced) = Len(call.files_to_process)

\* C31: the slots are produced one after another in the order of the plan,
\* a producer has ended (cache hit, success or failure) before the next
\* begins, and the join follows the last producer.
C31_Sequential == []C31_InPlanOrder /\ [][C31_OneAtATime]_vars

\* C31: in a run of Y a join followed the producers of two slots or more
C31_Witness ==
    /\ last.op = "merge"
    /\ last.joins # <<>>
    /\ Len(last.produced) >= 2
    /\ last.action = "Y"

\* ---------------------------------------------------------------- claim C32

\* the stream of the probe that carries a field of the fingerprint
StreamOf(actual_info, field) ==
    IF field \in {"resolution", "video_codec", "pixel_format"}
    THEN actual_info.video ELSE actual_info.audio

\* the fields of the current fingerprint for which the probe of the temp
\* file reports no stream
ExpectedFieldsWithoutStream(temp, current_expected) ==
    {field \in {"resolution", "video_codec", "pixel_format", "audio_codec",
                "sample_rate"} :
        /\ field \in DOMAIN current_expected
        /\ ~StreamOf(get_stream_info(temp), field).present}

\* C32 (as stated): when the current fingerprint expects a resolution, a
\* video codec, a pixel format, an audio codec or a sample rate and the
\* probe of the temp file reports no stream that carries it,
\* is_cached_file_valid does not return True.
C32_MissingStreamInvalidates ==
    (/\ last.op = "is_valid"
     /\ ExpectedFieldsWithoutStream(art[last.slot],
                                    InfoOf(call.cmd).expected) # {})
    => ~last.v.valid

\* C32 for the video stream: when the fingerprint expects a resolution and
\* the probe reports no video stream, is_cached_file_valid does not return
\* True.
C32_MissingVideoStreamInvalidates ==
    (/\ last.op = "is_valid"
     /\ "resolution" \in ExpectedFieldsWithoutStream(
                             art[last.slot], InfoOf(call.cmd).expected))
    => ~last.v.valid

\* C32: a temp file without an audio stream was taken for valid although
\* the fingerprint expects an audio codec and a sample rate
C32_MissingAudioAccepted ==
    /\ last.op = "is_valid"
    /\ last.v.valid
    /\ ~art[last.slot].audio.present
    /\ {"audio_codec", "sample_rate"} \subseteq DOMAIN InfoOf(call.cmd).expected

\* ---------------------------------------------------------------- claim C33

\* every check of is_cached_file_valid but the one of the duration passes
OtherChecksPass(uc, temp, source_mtime, cache_file, cache_info) ==
    is_cached_file_valid(uc, [temp EXCEPT !.duration = NoDuration],
                         source_mtime, cache_file, cache_info).valid

\* C33: when every other check passes, is_cached_file_valid returns False
\* exactly when the duration probed differs from the expected one by more
\* than 0.5 s; a difference of 0.5 s and a failed duration probe leave the
\* cache valid.
C33_DurationTolerance ==
    (/\ last.op = "is_valid"
     /\ "duration" \in DOMAIN InfoOf(call.cmd).expected
     /\ OtherChecksPass(use_cache, art[last.slot], src[last.slot].mtime,
                        sidecar[last.slot], InfoOf(call.cmd)))
    => LET actual == art[last.slot].duration
           expected == InfoOf(call.cmd).expected["duration"]
       IN  /\ ~last.v.raised
           /\ actual = NoDuration => last.v.valid
           /\ actual # NoDuration =>
                 (~last.v.valid <=>
                     (actual - expected > 5 \/ expected - actual > 5))

\* C33: a temp file whose duration is 0.5 s off was accepted
C33_Witness ==
    /\ last.op = "is_valid"
    /\ last.v.valid
    /\ art[last.slot].duration # NoDuration
    /\ Abs(art[last.slot].duration
           - InfoOf(call.cmd).expected["duration"]) = 5

\* C33: a temp file whose duration is 0.6 s off was refused for it
C33_RefusedBeyondTolerance ==
    /\ last.op = "is_valid"
    /\ ~last.v.valid
    /\ last.v.reason = "duration mismatch"
    /\ Abs(art[last.slot].duration
           - InfoOf(call.cmd).expected["duration"]) = 6

\* ---------------------------------------------------------------- claim C34

\* the temp file of a slot is valid under is_cached_file_valid for the
\* command its producer tries first
ValidAt(temps, caches, k) ==
    is_cached_file_valid(use_cache, temps[k], src[k].mtime, caches[k],
                         FirstInfo(k, src[k], dir)).valid

\* the slots of the plan whose temp files a manifest lists
ManifestSlots(filelist) ==
    {SlotOfLine(filelist[i]) : i \in DOMAIN filelist} \cap DOMAIN src

\* C34 (as stated): when a run of the action M joins, every temp file the
\* manifest lists is valid under is_cached_file_valid; a selected slot
\* whose temp file is older than its source has been produced again in the
\* run.
C34_MergeJoinsNoStaleSegment ==
    (last.op = "merge" /\ last.action = "M" /\ last.joins # <<>>) =>
        \A k \in ManifestSlots(last.filelist) :
            /\ ValidAt(last.temps_before, last.caches_before, k)
            /\ last.temps_before[k].mtime > src[k].mtime

\* C34: a run of M has joined the temp file of a selected slot that is
\* older than its source, without producing it again
C34_StaleSegmentJoined ==
    /\ last.op = "merge" /\ last.action = "M" /\ last.good
    /\ \E k \in ManifestSlots(last.filelist) :
          /\ last.temps_before[k].exists
          /\ last.temps_before[k].mtime < src[k].mtime
          /\ last.caches_before[k] # NoSidecar
          /\ ~Contains(last.produced, k)

\* ---------------------------------------------------------------- claim C35

\* C35 (as stated): the selection get_user_action returns for R or M holds
\* indices of slots of the plan of the run only.
C35_SelectionWithinPlan ==
    (last.op = "get_user_action" /\ last.good) =>
        \A i \in DOMAIN last.selected_indices :
            last.selected_indices[i] \in 1..last.plan_slots

\* the selection get_user_action returns lies within 1..18 and is
\* ascending without repetition, and the files handed to the producers are
\* slots of the plan
C35_SelectionWithinTotalFiles ==
    (last.op = "get_user_action" /\ last.good) =>
        /\ AscendingWithin(last.selected_indices, 1, TotalFiles)
        /\ \A i \in DOMAIN last.files_to_process :
              /\ last.files_to_process[i].index \in 1..last.plan_slots
              /\ Contains(last.selected_indices, last.files_to_process[i].index)

\* C35: for a plan of fewer than 18 slots the selection returned holds the
\* index 18
C35_SelectionBeyondPlan ==
    /\ last.op = "get_user_action" /\ last.good
    /\ last.plan_slots < TotalFiles
    /\ Contains(last.selected_indices, TotalFiles)

\* ---------------------------------------------------------------- claim C36

\* temp_{i-1}.mp4 in the temp directory
SlotPath(i) == "temp_/temp_" \o ToString(i - 1) \o ".mp4"

\* the slots of the plan that a run of M with a selection lists
ListedBySelection(action, selected_indices) ==
    IF action = "M" /\ SelectedSlotsOfPlan(selected_indices) # {}
    THEN SelectedSlotsOfPlan(selected_indices) ELSE DOMAIN src

\* C36: the temp file of slot i is temp_{i-1}.mp4 in the temp directory,
\* two slots of a plan have different temp files, the producer of slot i
\* writes to that path, a run of R removes the sidecars of the temp files
\* of the selected slots and no other, and the lines of filelist.txt name
\* the temp files of the slots merged by that same path.
C36_ConsistentAddressing ==
    /\ \A i, j \in DOMAIN src : TempPath(i) = TempPath(j) => i = j
    /\ \A i \in DOMAIN src : TempPath(i) = SlotPath(i)
    /\ last.op = "process" =>
          /\ FirstCmd(last.slot, src[last.slot], dir)[
                 Len(FirstCmd(last.slot, src[last.slot], dir))]
               = SlotPath(last.slot)
          /\ (last.good /\ last.invoked > 0) => art[last.slot].mtime = now + 1
    /\ (last.op = "start_run" /\ call.action = "R") =>
          \A k \in DOMAIN src :
              sidecar[k] = IF Contains(call.selected_indices, k)
                           THEN NoSidecar ELSE call.caches[k]
    /\ last.op = "merge" =>
          \A i \in DOMAIN last.filelist :
              \E k \in ListedBySelection(last.action, last.selected_indices) :
                  /\ last.filelist[i] =
                        "file 'temp_" \o ToString(k - 1) \o ".mp4'"
                  /\ last.action = "M" \/ last.temps_before[k].exists

\* C36: a run of M has listed the temp files of two slots or more, of
\* which it produced one itself
C36_Witness ==
    /\ last.op = "merge"
    /\ last.action = "M"
    /\ last.good
    /\ Len(last.filelist) >= 2
    /\ last.produced # <<>>
    /\ last.filelist[2] = "file 'temp_" \o ToString(last.produced[1] - 1) \o ".mp4'"

\* ---------------------------------------------------------------- claim C37

\* C37 (as stated): when a producer takes the temp file of its slot from
\* the cache, that temp file was encoded from the source file the slot
\* holds now.
C37_HitIsOfSameSource ==
    (last.op = "produce" /\ last.good /\ last.invocations = 0) =>
        last.made_from = last.source

\* a temp file taken from the cache was encoded from a source for which
\* the fingerprint holds the same duration: of the source file, the
\* duration is all that is_cached_file_valid compares
C37_HitIsOfSameDuration ==
    (last.op = "produce" /\ last.good /\ last.invocations = 0) =>
        /\ last.made_from # 0
        /\ Min(PoolFile(last.made_from).dur, 150)
             = Min(PoolFile(last.source).dur, 150)

\* C37: a producer took from the cache a temp file that was encoded from
\* another source file
C37_HitOnOtherSource ==
    /\ last.op = "produce"
    /\ last.good
    /\ last.invocations = 0
    /\ last.made_from \notin {0, last.source}

\* ---------------------------------------------------------------- claim C38

\* with caching on, the encoder runs and ends while the temp file has no
\* sidecar
C38_NoSidecarWhileEncoding ==
    (use_cache /\ call.pc \in {"encode", "save", "cleanup"}) =>
        sidecar[1] = NoSidecar

\* with caching on, between two calls a sidecar is the one written after
\* the encoder run that made the temp file, and the temp file is there
C38_SidecarOfLastSuccess ==
    (use_cache /\ call.pc = "idle" /\ sidecar[1] # NoSidecar) =>
        /\ art[1].exists /\ art[1].size # 0
        /\ sidecar[1] = call.made_with

\* with caching on, a sidecar is written by save_cache_info after the
\* encoder reported success, and holds the fingerprint of its command
C38_WrittenAfterSuccess ==
    (use_cache /\ sidecar'[1] # NoSidecar /\ sidecar'[1] # sidecar[1]) =>
        /\ call.pc = "save"
        /\ art[1].exists /\ art[1].size # 0
        /\ sidecar'[1] = Record(InfoOf(call.cmd))

\* C38: with caching on, the encoder is invoked for a temp file that has
\* no sidecar (an old one is unlinked first), a sidecar is written only
\* after the encoder reported success, and so between two productions a
\* sidecar holds the parameters of the last successful production of its
\* temp file and there is no sidecar without its temp file.
C38_SidecarLifecycle ==
    /\ [](C38_NoSidecarWhileEncoding /\ C38_SidecarOfLastSuccess)
    /\ [][C38_WrittenAfterSuccess]_vars

\* C38: the encoder is about to run for a temp file whose sidecar, written
\* for another command, has just been unlinked
C38_Witness ==
    /\ use_cache
    /\ call.pc = "encode"
    /\ last.op = "begin"
    /\ last.found # NoSidecar
    /\ last.found # Record(InfoOf(call.cmd))
    /\ sidecar[1] = NoSidecar
    /\ art[1].exists

\* ---------------------------------------------------------------- claim C39

\* a turn of main's loop for a slot leaves the source files, the input
\* directory, filelist.txt, the final outputs and the temp files and
\* sidecars of the other slots as they were, and a producer that took the
\* temp file from the cache leaves those of its own slot as well
C39_ProducerFrame ==
    (call.pc = "process" /\ last'.op = "process") =>
        /\ src' = src
        /\ dir' = dir
        /\ \A j \in DOMAIN src :
              j # last'.slot => (art'[j] = art[j] /\ sidecar'[j] = sidecar[j])
        /\ (last'.good /\ last'.invoked = 0) =>
              (art' = art /\ sidecar' = sidecar)

\* C39: the production of slot i, whether it takes the temp file from the
\* cache, encodes it or fails, changes no file but the temp file and the
\* sidecar of slot i, and a cache hit changes neither of them.
C39_FrameOfProduction == [][C39_ProducerFrame]_vars

\* C39: a producer took its temp file from the cache while another slot
\* had a temp file and a sidecar, and a final output was there
C39_Witness ==
    /\ last.op = "process"
    /\ last.good
    /\ last.invoked = 0
    /\ \E j \in DOMAIN src :
          j # last.slot /\ art[j].exists /\ sidecar[j] # NoSidecar
    /\ dir.outputs # {}

\* ---------------------------------------------------------------- claim C40
\* C40: at every moment at most one input thread waits for the keyboard,
\* over the confirmation prompt, its paused state, the cleanup prompt and
\* the repeated calls of a timed prompt, and a line typed at a prompt is
\* stored in the result cell of that prompt, never read by the thread an
\* earlier prompt left behind.
C40_OneInputThread ==
    /\ Len(call.listeners) <= 1
    /\ last.op = "line" => last.delivered_to = last.shown

\* a line that arrives between the check of the cell (line 770) and the next
\* test of is_alive() (line 764) ends the thread before the test, so a second
\* thread is started before the P is acted on, and the paused state starts a
\* third: two threads of the confirmation prompt wait
C40_TwoListenersWhilePaused ==
    /\ call.program = "media2vid"
    /\ call.pc = "wait"
    /\ call.listeners = <<1, 1>>

\* the cleanup prompt of media2vid.py is shown while the thread of the
\* confirmation prompt, whose countdown ran out, still waits
C40_LeftoverListener ==
    /\ call.program = "media2vid"
    /\ call.pc = "cleanup"
    /\ call.listeners = <<1, 2>>

\* the line typed at the cleanup prompt was read by the thread of the
\* confirmation prompt: the cell of the cleanup prompt stays empty
C40_LineTakenByLeftover ==
    /\ call.program = "media2vid"
    /\ last.op = "line"
    /\ last.shown = 2
    /\ last.delivered_to = 1
    /\ call.cells[2] = None

\* the same between two calls of the prompt of test_input_fix.py
C40_RepeatedCallLeftover ==
    /\ call.program = "test_input_fix"
    /\ last.op = "line"
    /\ last.delivered_to < last.shown

====
